---------------------------- MODULE Spec2Model ----------------------------
(***************************************************************************)
(* Model of the chat-log parser of client/src/pages/ChadBot.js             *)
(* (cleanText, fixMojibake, parseChat) and of the ChadBot component's      *)
(* state around it.                                                        *)
(*                                                                         *)
(* A JavaScript string is a sequence of characters.  An ASCII character is *)
(* the one-character string holding it; any other character is the token   *)
(* "U+" followed by its code in decimal ("U+160" is the no-break space     *)
(* U+00A0, "U+8239" the narrow no-break space U+202F), and so is the grave *)
(* accent, "U+96".                                                         *)
(***************************************************************************)
EXTENDS Integers, Sequences, FiniteSets, TLC

VARIABLES
    input,      \* how the pasted document was composed (history of rawText)
    rawText,    \* the textarea's content: the argument of parseChat
    pc,         \* "input": parseChat not yet called; "done": it has returned
    result,     \* what parseChat returned (or that it raised)
    detectedParticipants,   \* useState([]): the participants shown
    leftOriginal,           \* useState(''): the sender shown on the left
    leftAlias,              \* useState(''): the name displayed for it
    rightOriginal,          \* useState(''): the sender shown on the right
    rightAlias,             \* useState(''): the name displayed for it
    analysisData,           \* useState(null): the cached analysis
    isAnalysisOpen,         \* useState(false): the analysis panel is open
    step,                   \* useState('input'): 'input' or 'preview'
    isAnalyzing,            \* useState(false): an analysis is awaited
    isPredicting,           \* useState(false): a prediction is awaited
    requests,               \* the calls of callGemini that have not returned
    predicts,               \* how many times Predict Next Reply was clicked
    analysisOf,             \* the text analysisData was asked about (history)
    translator              \* the state of the AI_Translator component

\* The component's state apart from the text.
uiVars ==
    <<detectedParticipants, leftOriginal, leftAlias, rightOriginal,
      rightAlias, analysisData, isAnalysisOpen>>

\* The state of the AI features.
aiVars == <<step, isAnalyzing, isPredicting, requests, predicts, analysisOf>>

vars == <<input, rawText, pc, result, uiVars, aiVars, translator>>

---------------------------------------------------------------------------
(* Character classes of the JavaScript regular expressions and of trim().  *)

Digit == {"0", "1", "2", "3", "4", "5", "6", "7", "8", "9"}

\* \s of a regular expression, and what String.prototype.trim strips.
\* The grave accent (a TLA+ string cannot hold it), U+00A0 and U+202F.
BackTick == "U+96"
NBSP == "U+160"
NNBSP == "U+8239"
WhiteSpace == {" ", "\t", "\r", "\n", NBSP, NNBSP}

\* What "." of a regular expression does not match.
LineTerminator == {"\n", "\r"}

\* [/.-]
DateSep == {"/", ".", "-"}

\* The characters of a string of ASCII characters.
Chars(str) == [i \in 1..Len(str) |-> SubSeq(str, i, i)]

\* The character c, n times.
Rep(c, n) == [i \in 1..n |-> c]

Sub(s, a, b) == IF a > b THEN <<>> ELSE SubSeq(s, a, b)

At(s, p, cls) == p >= 1 /\ p <= Len(s) /\ s[p] \in cls

\* const name = value; rest: a value computed once and then used by name.
Bind(value, Rest(_)) == Rest(value)

\* First position >= p that holds no character of cls (Len(s) + 1 if none).
RECURSIVE SkipClass(_, _, _)
SkipClass(s, p, cls) ==
    IF At(s, p, cls) THEN SkipClass(s, p + 1, cls) ELSE p

SkipWs(s, p) == SkipClass(s, p, WhiteSpace)

\* Length of the run of digits that starts at p.
DigitRun(s, p) == SkipClass(s, p, Digit) - p

\* First position >= p that holds a character of cls (0 if none).
RECURSIVE FindClass(_, _, _)
FindClass(s, p, cls) ==
    IF p > Len(s) THEN 0
    ELSE IF s[p] \in cls THEN p
    ELSE FindClass(s, p + 1, cls)

\* End (exclusive) of what ".*" matches from p: up to the next line terminator.
DotEnd(s, p) ==
    LET t == FindClass(s, p, LineTerminator)
    IN  IF t = 0 THEN Len(s) + 1 ELSE t

---------------------------------------------------------------------------
(* String.prototype.trim, split('\n'), cleanText.                          *)

RECURSIVE TrimEnd(_)
TrimEnd(s) ==
    IF s # <<>> /\ s[Len(s)] \in WhiteSpace
    THEN TrimEnd(Sub(s, 1, Len(s) - 1))
    ELSE s

trim(s) == TrimEnd(Sub(s, SkipWs(s, 1), Len(s)))

\* text.replace(/\u202F/g, ' ').replace(/\u00A0/g, ' ')
cleanText(text) ==
    [i \in 1..Len(text) |->
        IF text[i] \in {NNBSP, NBSP} THEN " " ELSE text[i]]

\* rawText.split('\n'): always at least one (possibly empty) piece.
RECURSIVE split(_)
split(s) ==
    LET n == FindClass(s, 1, {"\n"})
    IN  IF n = 0 THEN <<s>>
        ELSE <<Sub(s, 1, n - 1)>> \o split(Sub(s, n + 1, Len(s)))

---------------------------------------------------------------------------
(* The four header patterns of parseChat, each regular expression          *)
(* translated piece by piece, with the greedy matching and the             *)
(* backtracking of the JavaScript engine.  A pattern gives the record its  *)
(* parse function builds, or NoMatch.                                      *)

NoMatch == [ok |-> FALSE]

Extracted(d, t, s, c) ==
    [ok |-> TRUE, date |-> d, time |-> t, sender |-> s, content |-> c]

\* \d{1,2}:\d{2} at p: the position after it, or 0.
TimeEnd(s, p) ==
    LET n == DigitRun(s, p)
    IN  IF /\ n \in {1, 2}
           /\ At(s, p + n, {":"})
           /\ At(s, p + n + 1, Digit)
           /\ At(s, p + n + 2, Digit)
        THEN p + n + 3
        ELSE 0

\* [ap]\.?m\.? at p, case-insensitive: the position after it, or 0.
MeridiemEnd(s, p) ==
    IF ~At(s, p, {"a", "p", "A", "P"}) THEN 0
    ELSE LET q == IF At(s, p + 1, {"."}) THEN p + 2 ELSE p + 1
         IN  IF ~At(s, q, {"m", "M"}) THEN 0
             ELSE IF At(s, q + 1, {"."}) THEN q + 2 ELSE q + 1

\* \d{1,2}[/.-]\d{1,2}[/.-]\d{2,4} at p, followed by a character of next:
\* the position after the date, or 0.
ShortDateEnd(s, p, next) ==
    LET n1 == DigitRun(s, p)
        p2 == p + n1 + 1
        n2 == DigitRun(s, p2)
        p3 == p2 + n2 + 1
        n3 == DigitRun(s, p3)
    IN  IF /\ n1 \in {1, 2} /\ At(s, p + n1, DateSep)
           /\ n2 \in {1, 2} /\ At(s, p2 + n2, DateSep)
           /\ n3 \in 2..4   /\ At(s, p3 + n3, next)
        THEN p3 + n3
        ELSE 0

\* \s*([^:]+):\s*(.*) at p: the tail shared by the three dated patterns.
\* The sender runs to the first colon; when only white space precedes that
\* colon, \s* gives its last character back to [^:]+.
SenderContent(s, p) ==
    LET c == FindClass(s, p, {":"})
        q == SkipWs(s, p)
        from == IF q >= c THEN c - 1 ELSE q
        r == SkipWs(s, c + 1)
    IN  IF c = 0 \/ c = p THEN NoMatch
        ELSE [ok |-> TRUE,
              sender |-> Sub(s, from, c - 1),
              content |-> Sub(s, r, DotEnd(s, r) - 1)]

\* A plausible slip in parseIso: the meridiem left out of the time.
parseIsoNoMeridiem(m1, m2, m3, m4, m5) == Extracted(m1, m2, m4, m5)

\* parse: (m) => ({ date: m[1], time: m[2] + " " + m[3], sender: m[4],
\*                 content: m[5] })
parseIso(m1, m2, m3, m4, m5) == Extracted(m1, m2 \o <<" ">> \o m3, m4, m5)

\* /^(\d{4}-\d{2}-\d{2}),\s*(\d{1,2}:\d{2})\s*([ap]\.?m\.?)\s*-\s*([^:]+):\s*(.*)/i
android_iso(s) ==
    Bind(SkipWs(s, 12), LAMBDA p2 :
    Bind(TimeEnd(s, p2), LAMBDA tEnd :
    Bind(SkipWs(s, tEnd), LAMBDA p3 :
    Bind(MeridiemEnd(s, p3), LAMBDA mEnd :
    Bind(SkipWs(s, mEnd), LAMBDA p5 :
    Bind(SenderContent(s, p5 + 1), LAMBDA sc :
        IF /\ DigitRun(s, 1) = 4 /\ At(s, 5, {"-"})
           /\ DigitRun(s, 6) = 2 /\ At(s, 8, {"-"})
           /\ DigitRun(s, 9) = 2 /\ At(s, 11, {","})
           /\ tEnd # 0
           /\ mEnd # 0
           /\ At(s, p5, {"-"})
           /\ sc.ok
        THEN parseIso(Sub(s, 1, 10), Sub(s, p2, tEnd - 1),
                      Sub(s, p3, mEnd - 1), sc.sender, sc.content)
        ELSE NoMatch))))))

\* A plausible slip in parseBrackets: the groups of date and time exchanged.
parseBracketsSwapped(m1, m2, m3, m4) == Extracted(m2, m1, m3, m4)

\* parse: (m) => ({ date: m[1], time: m[2], sender: m[3], content: m[4] })
parseBrackets(m1, m2, m3, m4) == Extracted(m1, m2, m3, m4)

\* /^\[(\d{1,2}[/.-]\d{1,2}[/.-]\d{2,4})[,\sT]+
\*   (\d{1,2}:\d{2}(?::\d{2})?(?:\s*[APap]\.?[Mm]\.?)?)\]\s*([^:]+):\s*(.*)/i
ios_brackets(s) ==
    Bind({","} \cup WhiteSpace \cup {"T", "t"}, LAMBDA between :
    Bind(ShortDateEnd(s, 2, between), LAMBDA dEnd :
    Bind(SkipClass(s, dEnd, between), LAMBDA p2 :
    Bind(TimeEnd(s, p2), LAMBDA hm :
    Bind(IF /\ At(s, hm, {":"})
            /\ At(s, hm + 1, Digit)
            /\ At(s, hm + 2, Digit)
         THEN hm + 3 ELSE hm, LAMBDA secs :
    Bind(MeridiemEnd(s, SkipWs(s, secs)), LAMBDA mer :
    Bind(IF mer # 0 /\ At(s, mer, {"]"}) THEN mer
         ELSE IF At(s, secs, {"]"}) THEN secs
         ELSE 0, LAMBDA tEnd :
    Bind(SenderContent(s, tEnd + 1), LAMBDA sc :
        IF /\ At(s, 1, {"["})
           /\ dEnd # 0
           /\ hm # 0
           /\ tEnd # 0
           /\ sc.ok
        THEN parseBrackets(Sub(s, 2, dEnd - 1), Sub(s, p2, tEnd - 1),
                           sc.sender, sc.content)
        ELSE NoMatch))))))))

\* /^(\d{1,2}[/.-]\d{1,2}[/.-]\d{2,4}),\s*(\d{1,2}:\d{2}\s*[APap]\.?[Mm]\.?)
\*   \s*-\s*([^:]+):\s*(.*)/i
\* parse: (m) => ({ date: m[1], time: m[2], sender: m[3], content: m[4] })
android_short(s) ==
    Bind(ShortDateEnd(s, 1, {","}), LAMBDA dEnd :
    Bind(SkipWs(s, dEnd + 1), LAMBDA p2 :
    Bind(TimeEnd(s, p2), LAMBDA hm :
    Bind(MeridiemEnd(s, SkipWs(s, hm)), LAMBDA mEnd :
    Bind(SkipWs(s, mEnd), LAMBDA p5 :
    Bind(SenderContent(s, p5 + 1), LAMBDA sc :
        IF /\ dEnd # 0
           /\ hm # 0
           /\ mEnd # 0
           /\ At(s, p5, {"-"})
           /\ sc.ok
        THEN Extracted(Sub(s, 1, dEnd - 1), Sub(s, p2, mEnd - 1),
                       sc.sender, sc.content)
        ELSE NoMatch))))))

\* The {0,30} of the generic pattern.
GenericCap == 30

\* A plausible slip in genericSender: no limit on the sender, [^\s:][^:]*.
genericSenderUncapped(s, c) == c >= 2 /\ s[1] \notin WhiteSpace

\* ^([^\s:][^:]{0,30}): with c the position of the first colon: the text
\* before it is 1 to 31 characters and starts with no white space.
genericSender(s, c) ==
    /\ c >= 2
    /\ s[1] \notin WhiteSpace
    /\ c - 1 <= 1 + GenericCap

\* A plausible slip in genericContent: :\s*(.*) as in the dated patterns.
genericContentOptional(s, c) == SkipWs(s, c + 1)

\* :\s+(.+) with c the position of the colon: where (.+) starts, or 0.
\* \s+ takes all the white space after the colon; when the line ends there it
\* gives back as little as lets (.+) match one character.
genericContent(s, c) ==
    LET r == SkipWs(s, c + 1)
        back == {j \in (c + 2)..Len(s) : s[j] \notin LineTerminator}
    IN  IF ~At(s, c + 1, WhiteSpace) THEN 0
        ELSE IF r <= Len(s) THEN r
        ELSE IF back = {} THEN 0
        ELSE CHOOSE j \in back : \A k \in back : k <= j

\* parse: (m) => ({ date: "", time: "", sender: m[1], content: m[2] })
parseGeneric(m1, m2) == Extracted(<<>>, <<>>, m1, m2)

\* /^([^\s:][^:]{0,30}):\s+(.+)/
generic(s) ==
    LET c == FindClass(s, 1, {":"})
        from == genericContent(s, c)
    IN  IF genericSender(s, c) /\ from # 0
        THEN parseGeneric(Sub(s, 1, c - 1), Sub(s, from, DotEnd(s, from) - 1))
        ELSE NoMatch

\* const patterns = [...]: in order of specificity, most specific first.
patterns == <<"android_iso", "ios_brackets", "android_short", "generic">>

Apply(id, s) ==
    CASE id = "android_iso"   -> android_iso(s)
      [] id = "ios_brackets"  -> ios_brackets(s)
      [] id = "android_short" -> android_short(s)
      [] id = "generic"       -> generic(s)

\* for (const p of patterns) { const match = ...; if (match) { extracted =
\* p.parse(match); break; } }: what the first pattern that matches extracts.
RECURSIVE MatchFrom(_, _)
MatchFrom(s, k) ==
    IF k > Len(patterns) THEN NoMatch
    ELSE Bind(Apply(patterns[k], s), LAMBDA m :
             IF m.ok THEN m ELSE MatchFrom(s, k + 1))

extract(cleanedLine) == MatchFrom(cleanedLine, 1)

---------------------------------------------------------------------------
(* fixMojibake: decodeURIComponent(escape(text)), the text itself when     *)
(* that throws.                                                            *)

\* The code units of the characters outside ASCII that the model's texts hold.
NonAsciiCode ==
    ("U+160" :> 160) @@ ("U+8239" :> 8239) @@
    ("U+195" :> 195) @@ ("U+169" :> 169) @@ ("U+233" :> 233) @@
    ("U+128" :> 128) @@ ("U+130" :> 130) @@ ("U+133" :> 133) @@
    ("U+144" :> 144) @@ ("U+152" :> 152) @@ ("U+159" :> 159) @@
    ("U+172" :> 172) @@ ("U+187" :> 187) @@ ("U+192" :> 192) @@
    ("U+201" :> 201) @@ ("U+226" :> 226) @@ ("U+237" :> 237) @@
    ("U+240" :> 240) @@ ("U+244" :> 244) @@ ("U+255" :> 255) @@
    ("U+256" :> 256)

IsAscii(c) == c \notin DOMAIN NonAsciiCode

\* The character of a code point above 127.
CharOf(cp) == "U+" \o ToString(cp)

\* escape(text): an ASCII character stands for itself (escape writes it as
\* itself or as %XX, which decodeURIComponent reads back as that character),
\* a code unit up to 255 becomes the byte %XX, a larger one becomes %uXXXX.
escape(text) ==
    [i \in 1..Len(text) |->
        IF IsAscii(text[i]) THEN [kind |-> "ascii", ch |-> text[i]]
        ELSE IF NonAsciiCode[text[i]] <= 255
             THEN [kind |-> "byte", b |-> NonAsciiCode[text[i]]]
             ELSE [kind |-> "u", b |-> NonAsciiCode[text[i]]]]

\* A continuation byte 10xxxxxx at position p of the escaped text.
IsCont(e, p) ==
    p <= Len(e) /\ e[p].kind = "byte" /\ e[p].b >= 128 /\ e[p].b <= 191

\* decodeURIComponent from position p on: the decoded text, or a URIError.
\* %u is no escape of decodeURIComponent; the bytes must be well-formed UTF-8
\* (no stray continuation byte, no overlong form, no surrogate, at most
\* U+10FFFF); a code point above U+FFFF comes out as a surrogate pair.
RECURSIVE decodeFrom(_, _, _)
decodeFrom(e, p, out) ==
    IF p > Len(e) THEN [ok |-> TRUE, out |-> out]
    ELSE IF e[p].kind = "ascii" THEN decodeFrom(e, p + 1, Append(out, e[p].ch))
    ELSE IF e[p].kind = "u" THEN [ok |-> FALSE]
    ELSE LET b == e[p].b
             c1 == e[p + 1].b % 64
             c2 == e[p + 2].b % 64
             c3 == e[p + 3].b % 64
             v2 == (b % 32) * 64 + c1
             v3 == (b % 16) * 4096 + c1 * 64 + c2
             v4 == (b % 8) * 262144 + c1 * 4096 + c2 * 64 + c3
         IN  IF b >= 192 /\ b <= 223
             THEN IF IsCont(e, p + 1) /\ v2 >= 128
                  THEN decodeFrom(e, p + 2, Append(out, CharOf(v2)))
                  ELSE [ok |-> FALSE]
             ELSE IF b >= 224 /\ b <= 239
             THEN IF /\ IsCont(e, p + 1) /\ IsCont(e, p + 2)
                     /\ v3 >= 2048 /\ ~(v3 >= 55296 /\ v3 <= 57343)
                  THEN decodeFrom(e, p + 3, Append(out, CharOf(v3)))
                  ELSE [ok |-> FALSE]
             ELSE IF b >= 240 /\ b <= 247
             THEN IF /\ IsCont(e, p + 1) /\ IsCont(e, p + 2) /\ IsCont(e, p + 3)
                     /\ v4 >= 65536 /\ v4 <= 1114111
                  THEN decodeFrom(e, p + 4,
                           out \o <<CharOf(55296 + ((v4 - 65536) \div 1024)),
                                    CharOf(56320 + ((v4 - 65536) % 1024))>>)
                  ELSE [ok |-> FALSE]
             ELSE [ok |-> FALSE]

decodeURIComponent(e) == decodeFrom(e, 1, <<>>)

\* fixMojibake with a catch that returns the empty string.
fixMojibakeEmptyOnError(text) ==
    LET d == decodeURIComponent(escape(text))
    IN  IF d.ok THEN d.out ELSE <<>>

\* try { return decodeURIComponent(escape(text)); } catch (e) { return text; }
fixMojibake(text) ==
    LET d == decodeURIComponent(escape(text))
    IN  IF d.ok THEN d.out ELSE text

---------------------------------------------------------------------------
(* JSON.parse.  A JSON value is a record tagged by t: "null", "bool" (b),  *)
(* "num" (n), "str" (s), "arr" (items) or "obj" (members, the key/value    *)
(* pairs in source order).  The grammar is that of ECMA-404 without        *)
(* fractions, exponents and the \b \f \u escapes, which no document of the *)
(* model holds.                                                            *)

JNull == [t |-> "null"]
JBool(b) == [t |-> "bool", b |-> b]
JNum(n) == [t |-> "num", n |-> n]
JStr(s) == [t |-> "str", s |-> s]
JArr(items) == [t |-> "arr", items |-> items]
JObj(members) == [t |-> "obj", members |-> members]

SyntaxError == [ok |-> FALSE]
Parsed(v, p) == [ok |-> TRUE, val |-> v, pos |-> p]

\* JSON white space: space, tab, line feed, carriage return (not U+00A0).
JsonWs == {" ", "\t", "\n", "\r"}

SkipJsonWs(s, p) == SkipClass(s, p, JsonWs)

DigitVal ==
    ("0" :> 0) @@ ("1" :> 1) @@ ("2" :> 2) @@ ("3" :> 3) @@ ("4" :> 4) @@
    ("5" :> 5) @@ ("6" :> 6) @@ ("7" :> 7) @@ ("8" :> 8) @@ ("9" :> 9)

RECURSIVE DigitsValue(_, _, _)
DigitsValue(s, a, b) ==
    IF a > b THEN 0 ELSE DigitsValue(s, a, b - 1) * 10 + DigitVal[s[b]]

StartsWith(s, p, word) ==
    /\ p + Len(word) - 1 <= Len(s)
    /\ Sub(s, p, p + Len(word) - 1) = word

\* The characters after the opening quote of a string, up to its closing one.
RECURSIVE ParseString(_, _, _)
ParseString(s, p, acc) ==
    IF p > Len(s) THEN SyntaxError
    ELSE IF s[p] = "\"" THEN Parsed(acc, p + 1)
    ELSE IF s[p] \in {"\n", "\r", "\t"} THEN SyntaxError
    ELSE IF s[p] = "\\"
         THEN IF At(s, p + 1, {"\"", "\\", "/"})
              THEN ParseString(s, p + 2, Append(acc, s[p + 1]))
              ELSE IF At(s, p + 1, {"n"})
              THEN ParseString(s, p + 2, Append(acc, "\n"))
              ELSE IF At(s, p + 1, {"r"})
              THEN ParseString(s, p + 2, Append(acc, "\r"))
              ELSE IF At(s, p + 1, {"t"})
              THEN ParseString(s, p + 2, Append(acc, "\t"))
              ELSE SyntaxError
    ELSE ParseString(s, p + 1, Append(acc, s[p]))

\* -?(0|[1-9][0-9]*) at p.
ParseNumber(s, p) ==
    LET neg == At(s, p, {"-"})
        d == IF neg THEN p + 1 ELSE p
        n == IF At(s, d, {"0"}) THEN 1 ELSE DigitRun(s, d)
        v == DigitsValue(s, d, d + n - 1)
    IN  IF n = 0 THEN SyntaxError
        ELSE Parsed(JNum(IF neg THEN 0 - v ELSE v), d + n)

RECURSIVE ParseValue(_, _)
RECURSIVE ParseItems(_, _, _)
RECURSIVE ParseMembers(_, _, _)

\* The value that starts at p (white space already skipped).
ParseValue(s, p) ==
    IF p > Len(s) THEN SyntaxError
    ELSE IF StartsWith(s, p, Chars("null")) THEN Parsed(JNull, p + 4)
    ELSE IF StartsWith(s, p, Chars("true")) THEN Parsed(JBool(TRUE), p + 4)
    ELSE IF StartsWith(s, p, Chars("false")) THEN Parsed(JBool(FALSE), p + 5)
    ELSE IF s[p] = "\""
         THEN LET str == ParseString(s, p + 1, <<>>)
              IN  IF str.ok THEN Parsed(JStr(str.val), str.pos) ELSE SyntaxError
    ELSE IF s[p] = "["
         THEN LET q == SkipJsonWs(s, p + 1)
              IN  IF At(s, q, {"]"}) THEN Parsed(JArr(<<>>), q + 1)
                  ELSE ParseItems(s, q, <<>>)
    ELSE IF s[p] = "{"
         THEN LET q == SkipJsonWs(s, p + 1)
              IN  IF At(s, q, {"}"}) THEN Parsed(JObj(<<>>), q + 1)
                  ELSE ParseMembers(s, q, <<>>)
    ELSE IF s[p] \in Digit \cup {"-"} THEN ParseNumber(s, p)
    ELSE SyntaxError

\* value (ws , ws value)* ws ] from p on.
ParseItems(s, p, acc) ==
    LET v == ParseValue(s, p)
        q == SkipJsonWs(s, v.pos)
    IN  IF ~v.ok THEN SyntaxError
        ELSE IF At(s, q, {","})
             THEN ParseItems(s, SkipJsonWs(s, q + 1), Append(acc, v.val))
        ELSE IF At(s, q, {"]"}) THEN Parsed(JArr(Append(acc, v.val)), q + 1)
        ELSE SyntaxError

\* string ws : ws value (ws , ws member)* ws } from p on.
ParseMembers(s, p, acc) ==
    LET k == ParseString(s, p + 1, <<>>)
        c == SkipJsonWs(s, k.pos)
        v == ParseValue(s, SkipJsonWs(s, c + 1))
        q == SkipJsonWs(s, v.pos)
        more == Append(acc, [key |-> k.val, val |-> v.val])
    IN  IF ~At(s, p, {"\""}) THEN SyntaxError
        ELSE IF ~k.ok THEN SyntaxError
        ELSE IF ~At(s, c, {":"}) THEN SyntaxError
        ELSE IF ~v.ok THEN SyntaxError
        ELSE IF At(s, q, {","}) THEN ParseMembers(s, SkipJsonWs(s, q + 1), more)
        ELSE IF At(s, q, {"}"}) THEN Parsed(JObj(more), q + 1)
        ELSE SyntaxError

\* JSON.parse(text): one value between optional white space, or a SyntaxError.
JSONparse(text) ==
    LET v == ParseValue(text, SkipJsonWs(text, 1))
    IN  IF v.ok /\ SkipJsonWs(text, v.pos) = Len(text) + 1 THEN v
        ELSE SyntaxError

---------------------------------------------------------------------------
(* JavaScript values and the operations parseChat applies to them.         *)

Undefined == [t |-> "undefined"]

\* ToBoolean.
Truthy(v) ==
    CASE v.t = "bool" -> v.b
      [] v.t = "num"  -> v.n # 0
      [] v.t = "str"  -> v.s # <<>>
      [] v.t \in {"arr", "obj"} -> TRUE
      [] OTHER -> FALSE

\* Reading property key of v.  Of null it throws a TypeError; an object has
\* the value of its last member of that name (JSON.parse keeps the last of
\* duplicate keys); nothing else has a property of that name.
CanRead(v) == v.t \notin {"null", "undefined"}

Get(v, key) ==
    IF v.t = "obj"
    THEN LET at == {i \in 1..Len(v.members) : v.members[i].key = key}
         IN  IF at = {} THEN Undefined
             ELSE v.members[CHOOSE i \in at : \A j \in at : j <= i].val
    ELSE Undefined

LowerCase == <<"a", "b", "c", "d", "e", "f", "g", "h", "i", "j", "k", "l", "m",
               "n", "o", "p", "q", "r", "s", "t", "u", "v", "w", "x", "y", "z">>
UpperCase == <<"A", "B", "C", "D", "E", "F", "G", "H", "I", "J", "K", "L", "M",
               "N", "O", "P", "Q", "R", "S", "T", "U", "V", "W", "X", "Y", "Z">>

\* String.prototype.toUpperCase of one character (the roles of the model are
\* ASCII).
toUpperCase(c) ==
    IF \E i \in 1..Len(LowerCase) : LowerCase[i] = c
    THEN UpperCase[CHOOSE i \in 1..Len(LowerCase) : LowerCase[i] = c]
    ELSE c

\* msg.role.charAt(0).toUpperCase() + msg.role.slice(1)
capitalize(role) ==
    IF role = <<>> THEN <<>>
    ELSE <<toUpperCase(role[1])>> \o Sub(role, 2, Len(role))

RECURSIVE NatToString(_)
NatToString(n) ==
    IF n < 10 THEN <<CHOOSE d \in Digit : DigitVal[d] = n>>
    ELSE NatToString(n \div 10) \o <<CHOOSE d \in Digit : DigitVal[d] = n % 10>>

\* ToString, which escape() applies to an argument that is no string.
RECURSIVE ToStr(_)
RECURSIVE JoinItems(_, _)
ToStr(v) ==
    CASE v.t = "str"  -> v.s
      [] v.t = "num"  -> IF v.n < 0 THEN <<"-">> \o NatToString(0 - v.n)
                         ELSE NatToString(v.n)
      [] v.t = "bool" -> IF v.b THEN Chars("true") ELSE Chars("false")
      [] v.t = "null" -> Chars("null")
      [] v.t = "arr"  -> JoinItems(v.items, 1)
      [] v.t = "obj"  -> Chars("[object Object]")
      [] OTHER        -> Chars("undefined")

\* Array.prototype.join(','): null and undefined items give the empty string.
JoinItems(items, k) ==
    IF k > Len(items) THEN <<>>
    ELSE (IF k > 1 THEN <<",">> ELSE <<>>)
         \o (IF CanRead(items[k]) THEN ToStr(items[k]) ELSE <<>>)
         \o JoinItems(items, k + 1)

\* A plausible slip: an array with push() in place of the Set.
SetAddAgain(set, x) == Append(set, x)

\* new Set() with add(), read back by Array.from: insertion order, no
\* value twice.
SetAdd(set, x) ==
    IF \E i \in 1..Len(set) : set[i] = x THEN set ELSE Append(set, x)

\* The k-th value Math.random() returns, from the stream rnd.
Random(rnd, k) == rnd[((k - 1) % Len(rnd)) + 1]

---------------------------------------------------------------------------
(* parseChat, step 0: the JSON fast path (the body of the try block).      *)

\* ch, case-insensitively, for the letters of "json".
BothCases(c) == {c, toUpperCase(c)}

\* trimmed.replace(/^~~~json\s*/i, "").replace(/^~~~\s*/i, "")
\*        .replace(/\s*~~~$/, ""), where ~~~ stands for three grave accents.
stripFences(t) ==
    Bind(<<BackTick, BackTick, BackTick>>, LAMBDA fence :
    Bind(IF /\ StartsWith(t, 1, fence)
            /\ At(t, 4, BothCases("j")) /\ At(t, 5, BothCases("s"))
            /\ At(t, 6, BothCases("o")) /\ At(t, 7, BothCases("n"))
         THEN Sub(t, SkipWs(t, 8), Len(t))
         ELSE t, LAMBDA a :
    Bind(IF StartsWith(a, 1, fence) THEN Sub(a, SkipWs(a, 4), Len(a)) ELSE a,
         LAMBDA b :
        IF Len(b) >= 3 /\ Sub(b, Len(b) - 2, Len(b)) = fence
        THEN TrimEnd(Sub(b, 1, Len(b) - 3))
        ELSE b)))

JsonMessage(idx, r, sender, content) ==
    [id |-> <<"json", idx, r>>, date |-> <<>>, time |-> <<>>,
     sender |-> sender, content |-> content]

\* jsonMessages.forEach((msg, idx) => { if (msg.role && msg.content) ... }),
\* from element k on.  Reading a property of null, and calling charAt on a
\* role that is no string, throw a TypeError, which ends the loop.
RECURSIVE forEachJson(_, _, _, _, _, _)
forEachJson(items, k, messages, participants, calls, rnd) ==
    IF k > Len(items)
    THEN [threw |-> FALSE, messages |-> messages,
          participants |-> participants, calls |-> calls]
    ELSE LET msg == items[k]
             role == Get(msg, Chars("role"))
             content == Get(msg, Chars("content"))
             sender == capitalize(role.s)
             thrown == [threw |-> TRUE, messages |-> messages,
                        participants |-> participants, calls |-> calls]
         IN  IF ~CanRead(msg) THEN thrown
             ELSE IF ~(Truthy(role) /\ Truthy(content))
                  THEN forEachJson(items, k + 1, messages, participants,
                                   calls, rnd)
             ELSE IF role.t # "str" THEN thrown
             ELSE forEachJson(items, k + 1,
                      Append(messages,
                             JsonMessage(k - 1, Random(rnd, calls + 1), sender,
                                         fixMojibake(ToStr(content)))),
                      SetAdd(participants, sender), calls + 1, rnd)

\* A plausible slip: only a top-level array taken, json.messages forgotten.
jsonMessagesArrayOnly(json) == IF json.t = "arr" THEN json ELSE JArr(<<>>)

\* const jsonMessages = Array.isArray(json) ? json : (json.messages || [])
jsonMessagesOf(json) ==
    IF json.t = "arr" THEN json
    ELSE Bind(Get(json, Chars("messages")), LAMBDA field :
             IF Truthy(field) THEN field ELSE JArr(<<>>))

\* The try block: "return" with a result, "throw" (a SyntaxError of
\* JSON.parse or a TypeError of the loop), or "fall" out of it to the line
\* parser.  calls counts the Math.random() calls made.
jsonFastPath(text, rnd) ==
    Bind([messages |-> <<>>, participants |-> <<>>, calls |-> 0], LAMBDA none :
    Bind(stripFences(trim(text)), LAMBDA trimmed :
    Bind(JSONparse(trimmed), LAMBDA json :
    Bind(jsonMessagesOf(json.val), LAMBDA jsonMessages :
    Bind(forEachJson(jsonMessages.items, 1, <<>>, <<>>, 0, rnd), LAMBDA loop :
        IF ~At(trimmed, 1, {"{", "["}) THEN [kind |-> "fall"] @@ none
        ELSE IF ~json.ok THEN [kind |-> "throw"] @@ none
        ELSE IF ~(jsonMessages.t = "arr" /\ Len(jsonMessages.items) > 0)
             THEN [kind |-> "fall"] @@ none
        ELSE IF loop.threw
             THEN [kind |-> "throw"] @@ [none EXCEPT !.calls = loop.calls]
        ELSE IF Len(loop.messages) > 0
             THEN [kind |-> "return", messages |-> loop.messages,
                   participants |-> loop.participants, calls |-> loop.calls]
        ELSE [kind |-> "fall"] @@ [none EXCEPT !.calls = loop.calls])))))

\* A plausible slip: the try block without its catch clause.
catchNothing(outcome) == outcome

\* A plausible slip: a catch clause that returns an empty result.
catchAndReturn(outcome) ==
    IF outcome.kind = "throw"
    THEN [kind |-> "return", messages |-> <<>>, participants |-> <<>>,
          calls |-> outcome.calls]
    ELSE outcome

\* catch (e) { console.log(...) }: the exception ends here and parseChat goes
\* on to the line parser.
catch(outcome) ==
    IF outcome.kind = "throw" THEN [outcome EXCEPT !.kind = "fall"] ELSE outcome

---------------------------------------------------------------------------
(* parseChat, step 1: the line parser.                                     *)

Unknown == Chars("Unknown")

NoCurrent == [some |-> FALSE]

\* A plausible slip in newMessage: the default of the date given to the time
\* as well.
newMessageTimeDefaulted(extracted, r) ==
    [id |-> <<r>>,
     date |-> IF extracted.date = <<>> THEN Unknown ELSE extracted.date,
     time |-> IF extracted.time = <<>> THEN Unknown ELSE extracted.time,
     sender |-> trim(extracted.sender),
     content |-> trim(extracted.content)]

\* A plausible slip in newMessage: the date taken as extracted, no default.
newMessageNoDefault(extracted, r) ==
    [id |-> <<r>>,
     date |-> extracted.date,
     time |-> extracted.time,
     sender |-> trim(extracted.sender),
     content |-> trim(extracted.content)]

\* currentMessage = { id, date: extracted.date || "Unknown",
\*   time: extracted.time || "", sender, content: extracted.content.trim() }
newMessage(extracted, r) ==
    [id |-> <<r>>,
     date |-> IF extracted.date = <<>> THEN Unknown ELSE extracted.date,
     time |-> extracted.time,
     sender |-> trim(extracted.sender),
     content |-> trim(extracted.content)]

\* A plausible slip in continuation: a space in place of the line feed.
continuationOnSameLine(message, cleanedLine) ==
    [message EXCEPT !.content = @ \o <<" ">> \o cleanedLine]

\* currentMessage.content += "\n" + cleanedLine
continuation(message, cleanedLine) ==
    [message EXCEPT !.content = @ \o <<"\n">> \o cleanedLine]

\* At a new header: if (currentMessage) messages.push(currentMessage)
flush(messages, current) ==
    IF current.some THEN Append(messages, current.msg) ELSE messages

\* A plausible slip: no push after the loop.
pushLastForgotten(messages, current) == messages

\* After the loop: if (currentMessage) messages.push(currentMessage)
pushLast(messages, current) ==
    IF current.some THEN Append(messages, current.msg) ELSE messages

\* lines.forEach((line) => { ... }) from line k on, then the push of the
\* last message.
RECURSIVE forEachLine(_, _, _, _, _, _, _)
forEachLine(lines, k, messages, participants, current, calls, rnd) ==
    IF k > Len(lines)
    THEN [messages |-> pushLast(messages, current),
          participants |-> participants]
    ELSE Bind(cleanText(trim(lines[k])), LAMBDA cleanedLine :
         Bind(extract(cleanedLine), LAMBDA extracted :
             IF cleanedLine = <<>>
             THEN forEachLine(lines, k + 1, messages, participants, current,
                              calls, rnd)
             ELSE IF extracted.ok
             THEN forEachLine(lines, k + 1, flush(messages, current),
                      SetAdd(participants, trim(extracted.sender)),
                      [some |-> TRUE,
                       msg |-> newMessage(extracted, Random(rnd, calls + 1))],
                      calls + 1, rnd)
             ELSE IF current.some
             THEN forEachLine(lines, k + 1, messages, participants,
                      [some |-> TRUE,
                       msg |-> continuation(current.msg, cleanedLine)],
                      calls, rnd)
             ELSE forEachLine(lines, k + 1, messages, participants, current,
                              calls, rnd)))

lineParse(text, calls, rnd) ==
    forEachLine(split(text), 1, <<>>, <<>>, NoCurrent, calls, rnd)

---------------------------------------------------------------------------
(* parseChat(text), with rnd the values Math.random() returns.             *)
(* raised tells that an exception left the function.                       *)

parseChat(text, rnd) ==
    Bind(catch(jsonFastPath(text, rnd)), LAMBDA j :
        IF j.kind = "throw"
        THEN [raised |-> TRUE, messages |-> <<>>, participants |-> <<>>]
        ELSE IF j.kind = "return"
        THEN [raised |-> FALSE, messages |-> j.messages,
              participants |-> j.participants]
        ELSE Bind(lineParse(text, j.calls, rnd), LAMBDA l :
                 [raised |-> FALSE, messages |-> l.messages,
                  participants |-> l.participants]))

---------------------------------------------------------------------------
(* The documents pasted into the textarea.  A document is composed from    *)
(* line descriptors, from a JSON value, or given as raw text; a line       *)
(* descriptor records the parts its text was written from (date, time,     *)
(* sender, content), so that what parseChat returns can be compared with   *)
(* what was written.                                                       *)

\* Longest document composed freely from SmallPool, in lines.
MaxLines == 4

\* Longest JSON array composed freely from ElementPool.
MaxElems == 2

Line(kind, date, time, sender, content, text) ==
    [kind |-> kind, date |-> date, time |-> time, sender |-> sender,
     content |-> content, text |-> text]

\* "YYYY-MM-DD, H:MM a.m. - Sender: Message"; gap separates time and meridiem.
IsoHeader(date, hm, gap, mer, sender, content) ==
    Line("android_iso", date, hm \o <<" ">> \o mer, sender, content,
         date \o <<",", " ">> \o hm \o gap \o mer \o <<" ", "-", " ">>
              \o sender \o <<":", " ">> \o content)

\* "[D/M/Y, H:MM:SS AM] Sender: Message"; between separates date and time.
BracketHeader(date, between, time, sender, content) ==
    Line("ios_brackets", date, time, sender, content,
         <<"[">> \o date \o between \o time \o <<"]", " ">>
              \o sender \o <<":", " ">> \o content)

\* "D/M/Y, H:MM am - Sender: Message"
ShortHeader(date, hm, gap, mer, sender, content) ==
    Line("android_short", date, hm \o cleanText(gap) \o mer, sender, content,
         date \o <<",", " ">> \o hm \o gap \o mer \o <<" ", "-", " ">>
              \o sender \o <<":", " ">> \o content)

\* "Sender: Message"
GenericHeader(sender, gap, content) ==
    Line("generic", <<>>, <<>>, sender, content,
         sender \o <<":">> \o gap \o content)

\* A line that is no header; content is the line as a continuation holds it.
Plain(text) == Line("plain", <<>>, <<>>, <<>>, text, text)

Blank(text) == Line("blank", <<>>, <<>>, <<>>, <<>>, text)

\* The same line with white space around it; the parts are unchanged.
Padded(lead, line, trail) == [line EXCEPT !.text = lead \o @ \o trail]

Sam == Chars("Sam")
Robin == Chars("Robin")
AlZ == Chars("Al Z")
Hello == Chars("hello")
OnMyWay == Chars("on my way")
WithColon == Chars("re: ok")
SecondLine == Chars("second line")
LongColon == Rep("x", GenericCap + 2) \o Chars(": y")
IsoDate == Chars("2025-06-12")
SlashDate == Chars("12/06/2025")

IsoDates == {IsoDate}
ShortDates == {SlashDate, Chars("1.6.25"), Chars("1-06-025")}
Times == {Chars("11:20"), Chars("9:05")}
Meridiems == {Chars("a.m."), Chars("PM"), Chars("am")}
Gaps == {<<" ">>, <<NNBSP>>, <<>>}
BracketTimes ==
    {Chars("11:20:00 AM"), Chars("11:20"), Chars("9:05 p.m."), Chars("11:20:00")}
Betweens == {Chars(", "), <<" ">>, <<"T">>}
Contents == {Hello, WithColon, <<>>}

IsoLines ==
    {IsoHeader(d, t, g, m, n, c) :
        d \in IsoDates, t \in Times, g \in Gaps, m \in Meridiems,
        n \in {Sam, AlZ}, c \in Contents}

BracketLines ==
    {BracketHeader(d, b, t, n, c) :
        d \in ShortDates, b \in Betweens, t \in BracketTimes,
        n \in {Robin}, c \in {OnMyWay, <<>>}}

ShortLines ==
    {ShortHeader(d, t, g, m, n, c) :
        d \in ShortDates, t \in {Chars("11:20")}, g \in Gaps,
        m \in {Chars("a.m."), Chars("PM")}, n \in {Sam}, c \in {Hello, <<>>}}

\* Senders of 1, 4, 30 and 31 characters.
GenericLines ==
    {GenericHeader(n, g, c) :
        n \in {<<"A">>, AlZ, Rep("x", GenericCap), Rep("x", GenericCap + 1)},
        g \in {<<" ">>, <<NBSP, " ">>, <<"\t">>}, c \in {Hello, WithColon}}

\* Lines that no pattern matches: no colon; a colon after more than 31
\* characters; a colon with nothing, or no white space, after it; a line that
\* starts with a colon; a header without its colon; a time without meridiem
\* before the dash; a bracket date that starts with the year.
PlainLines ==
    {Plain(t) : t \in
        {SecondLine,
         LongColon,
         Chars("This sentence happens to contain a colon: here"),
         Chars("<Media omitted>"),
         Chars("Sam:"),
         Chars("a:b"),
         Chars(": y"),
         Chars("http://x.y"),
         Chars("2025-06-12, 11:20 a.m. - Sam left"),
         Chars("2025-06-12, 11:20 - Sam: hi"),
         Chars("12/06/2025, 11:20 - Sam: hi"),
         Chars("[2025-06-12, 11:20] Sam: hi")}}

BlankLines == {Blank(<<>>), Blank(<<" ">>), Blank(<<NBSP, "\r">>)}

\* Lines with white space around them, as a CRLF export has.
PaddedLines ==
    {Padded(<<" ">>, l, <<" ", "\r">>) :
        l \in {IsoHeader(IsoDate, Chars("11:20"), <<" ">>, Chars("a.m."),
                         Sam, Hello),
               BracketHeader(SlashDate, Chars(", "), Chars("11:20:00 AM"),
                             Robin, OnMyWay),
               GenericHeader(AlZ, <<" ">>, Hello),
               Plain(SecondLine)}}

\* Lines that hold a no-break space, which cleanText makes a space.
NbspLines ==
    {Line("plain", <<>>, <<>>, <<>>, Chars("ok then"),
          Chars("ok") \o <<NBSP>> \o Chars("then")),
     Line("generic", <<>>, <<>>, AlZ, Hello,
          Chars("Al") \o <<NNBSP>> \o Chars("Z: hello"))}

SingleLines ==
    IsoLines \cup BracketLines \cup ShortLines \cup GenericLines
        \cup PlainLines \cup BlankLines \cup PaddedLines \cup NbspLines

\* The lines of the documents of several lines: three senders in four
\* formats, two of them twice, two continuations and a blank line.
SmallPool ==
    {IsoHeader(IsoDate, Chars("11:20"), <<" ">>, Chars("a.m."), Sam, Hello),
     BracketHeader(SlashDate, Chars(", "), Chars("11:20:00 AM"), Robin, OnMyWay),
     GenericHeader(Sam, <<" ">>, WithColon),
     GenericHeader(AlZ, <<" ">>, Hello),
     ShortHeader(SlashDate, Chars("11:20"), <<" ">>, Chars("PM"), Robin, <<>>),
     Plain(SecondLine),
     Plain(LongColon),
     Blank(<<" ">>)}

SeqsUpTo(S, n) == UNION {[1..k -> S] : k \in 0..n}

LineDocs ==
    {<<l>> : l \in SingleLines}
        \cup {<<GenericHeader(Sam, <<" ">>, Hello), l>> :
                 l \in PlainLines \cup PaddedLines \cup NbspLines}
        \cup SeqsUpTo(SmallPool, MaxLines)

---------------------------------------------------------------------------
(* JSON documents: a value written out in one of five layouts.             *)

Member(key, val) == [key |-> Chars(key), val |-> val]

Element(role, content) ==
    JObj(<<Member("role", role), Member("content", content)>>)

\* "\"", "\\" and the control characters of a string, escaped.
RECURSIVE EscapeChars(_)
EscapeChars(s) ==
    IF s = <<>> THEN <<>>
    ELSE (CASE s[1] \in {"\"", "\\"} -> <<"\\", s[1]>>
            [] s[1] = "\n" -> <<"\\", "n">>
            [] s[1] = "\r" -> <<"\\", "r">>
            [] s[1] = "\t" -> <<"\\", "t">>
            [] OTHER -> <<s[1]>>)
         \o EscapeChars(Sub(s, 2, Len(s)))

Quote(s) == <<"\"">> \o EscapeChars(s) \o <<"\"">>

\* The text of value v: "compact" as JSON.stringify(v) writes it, "pretty"
\* as JSON.stringify(v, null, 2) does, "spaced" on one line with a space
\* after each colon and comma.
RECURSIVE Stringify(_, _, _)
RECURSIVE StringifyAll(_, _, _, _)
Stringify(v, layout, depth) ==
    LET open == IF layout = "pretty"
                THEN <<"\n">> \o Rep(" ", 2 * (depth + 1)) ELSE <<>>
        close == IF layout = "pretty" THEN <<"\n">> \o Rep(" ", 2 * depth)
                 ELSE <<>>
        n == IF v.t = "arr" THEN Len(v.items) ELSE Len(v.members)
    IN  CASE v.t = "str"  -> Quote(v.s)
          [] v.t \in {"num", "bool", "null"} -> ToStr(v)
          [] v.t = "arr" ->
                IF n = 0 THEN Chars("[]")
                ELSE <<"[">> \o open \o StringifyAll(v, layout, depth, 1)
                         \o close \o <<"]">>
          [] v.t = "obj" ->
                IF n = 0 THEN Chars("{}")
                ELSE <<"{">> \o open \o StringifyAll(v, layout, depth, 1)
                         \o close \o <<"}">>

\* The items of array v, or the members of object v, from the k-th on.
StringifyAll(v, layout, depth, k) ==
    LET n == IF v.t = "arr" THEN Len(v.items) ELSE Len(v.members)
        comma == CASE layout = "pretty" ->
                        <<",", "\n">> \o Rep(" ", 2 * (depth + 1))
                   [] layout = "spaced" -> <<",", " ">>
                   [] OTHER -> <<",">>
        colon == IF layout = "compact" THEN <<":">> ELSE <<":", " ">>
        one == IF v.t = "arr" THEN Stringify(v.items[k], layout, depth + 1)
               ELSE Quote(v.members[k].key) \o colon
                        \o Stringify(v.members[k].val, layout, depth + 1)
    IN  IF k = n THEN one
        ELSE one \o comma \o StringifyAll(v, layout, depth, k + 1)

Layouts == {"compact", "spaced", "pretty", "fenced", "wrapped"}

\* "fenced": in a markdown code block; "wrapped": as the messages field of
\* an object.
RenderJson(v, layout) ==
    CASE layout = "fenced" ->
            <<BackTick, BackTick, BackTick>> \o Chars("json") \o <<"\n">>
                \o Stringify(v, "compact", 0)
                \o <<"\n", BackTick, BackTick, BackTick>>
      [] layout = "wrapped" ->
            Stringify(JObj(<<Member("model", JStr(Chars("m"))),
                             Member("messages", v)>>), "compact", 0)
      [] OTHER -> Stringify(v, layout, 0)

User == JStr(Chars("user"))
Assistant == JStr(Chars("assistant"))

\* Array elements with a role and a content (the second content is "e
\* acute" double-encoded), and elements without: no content, no role, an
\* empty content, no object at all.
GoodElements ==
    {Element(User, JStr(Chars("hi"))),
     Element(Assistant, JStr(<<"U+195", "U+169">> \o Chars(" ok"))),
     Element(User, JStr(Chars("a \"b\"\nc")))}

LackingElements ==
    {JObj(<<Member("role", User)>>),
     JObj(<<Member("content", JStr(Chars("hi")))>>),
     Element(User, JStr(<<>>)),
     JNum(5),
     JStr(Chars("role")),
     JNull}

\* Elements whose role or content is no string.
OddElements ==
    {Element(JNum(5), JStr(Chars("hi"))),
     Element(User, JNum(7))}

ElementPool == GoodElements \cup LackingElements \cup OddElements

JsonArrays == {JArr(items) : items \in SeqsUpTo(ElementPool, MaxElems)}

\* Documents that are an object, not an array of messages.
JsonObjects ==
    {JObj(<<>>),
     JObj(<<Member("messages", JNum(5))>>),
     JObj(<<Member("messages", JStr(Chars("hi")))>>),
     JObj(<<Member("messages", JNull)>>),
     JObj(<<Member("messages", Element(User, JStr(Chars("hi"))))>>),
     Element(User, JStr(Chars("hi")))}

\* Texts that start like JSON and are none: cut short, with a comma too
\* many, with text after the value, with a no-break space (no white space of
\* JSON), over several lines.
BrokenJson ==
    {Chars("{not valid json"),
     Chars("[1,]"),
     Chars("["),
     Chars("[{\"role\":\"user\",\"content\":\"hi\"}] Sam: hi"),
     <<"[", NBSP, "]">>,
     Chars("{\"role\": \"user\", \"content\": \"hi\",}"),
     Chars("[\nSam: hi\nthere"),
     Chars(" [\n  {\n    \"role\": \"user\",\n    \"content\": \"hi\",\n  }\n]")}

\* The broken JSON texts, and a fence around plain text.
RawDocs ==
    BrokenJson
        \cup {<<BackTick, BackTick, BackTick>> \o Chars("\nSam: hi\n")
                  \o <<BackTick, BackTick, BackTick>>}

Inputs ==
    {[form |-> "lines", lines |-> d] : d \in LineDocs}
        \cup {[form |-> "json", value |-> v, layout |-> l] :
                 v \in JsonArrays \cup JsonObjects, l \in Layouts}
        \cup {[form |-> "raw", text |-> t] : t \in RawDocs}

\* lines.join("\n")
RECURSIVE JoinLines(_)
JoinLines(lines) ==
    IF lines = <<>> THEN <<>>
    ELSE IF Len(lines) = 1 THEN lines[1].text
    ELSE lines[1].text \o <<"\n">> \o JoinLines(Tail(lines))

\* The text of a document.
Render(in) ==
    CASE in.form = "lines" -> JoinLines(in.lines)
      [] in.form = "json"  -> RenderJson(in.value, in.layout)
      [] in.form = "raw"   -> in.text

---------------------------------------------------------------------------
(* The state machine: a document is pasted, then parseChat is applied.     *)

\* What Math.random() may return, call after call: values that all differ,
\* and values that repeat.
RandomStreams == {<<"r1", "r2", "r3", "r4", "r5", "r6">>, <<"r1", "r1", "r2">>}

NoResult == [raised |-> FALSE, messages |-> <<>>, participants |-> <<>>]

null == JNull

\* AI_Translator after its first render and its effects: the useState
\* defaults, the timer that useDebounce starts for the first value, and no
\* request (the translate effect finds a blank text).  fetches are the calls of
\* fetch that have not settled, and pc is "effect" from a render that
\* changed a dependency of the translate effect until that effect has run.
AI_Translator ==
    [inputText |-> <<>>, sourceLang |-> "auto", targetLang1 |-> "en",
     targetLang2 |-> "fr", result |-> null, isLoading |-> FALSE,
     error |-> null, detectedSource |-> null, debouncedText |-> <<>>,
     timeout |-> [value |-> <<>>], fetches |-> <<>>, pc |-> "idle"]

\* The useState defaults of the component.
Mounted ==
    /\ detectedParticipants = <<>>
    /\ leftOriginal = <<>>
    /\ leftAlias = <<>>
    /\ rightOriginal = <<>>
    /\ rightAlias = <<>>
    /\ analysisData = null
    /\ isAnalysisOpen = FALSE
    /\ step = "input"
    /\ isAnalyzing = FALSE
    /\ isPredicting = FALSE
    /\ requests = <<>>
    /\ predicts = 0
    /\ analysisOf = <<>>
    /\ translator = AI_Translator

Init ==
    /\ input \in Inputs
    /\ rawText = Render(input)
    /\ pc = "input"
    /\ result = NoResult
    /\ Mounted

\* const { messages, participants } = parseChat(rawText)
Parse ==
    /\ pc = "input"
    /\ \E rnd \in RandomStreams : result' = parseChat(rawText, rnd)
    /\ pc' = "done"
    /\ UNCHANGED <<input, rawText, uiVars, aiVars>>
    /\ UNCHANGED translator

Next == Parse

Spec == Init /\ [][Next]_vars

---------------------------------------------------------------------------
(* fixMojibake on its own: a text is given, then fixMojibake is applied.   *)

\* The longest text made of every combination of TextChars.
MaxText == 2

\* Characters of the texts: ASCII, Latin-1 letters and signs (the lead and
\* continuation bytes of UTF-8 among them), code units above 255.
TextChars ==
    {"a", "%"} \cup DOMAIN NonAsciiCode

\* Correct texts as people write them: ASCII, accented letters, a no-break
\* space before a punctuation mark or a closing guillemet (French).
CleanTexts ==
    {Chars("hello"),
     Chars("100% sure"),
     Chars("caf") \o <<"U+233">>,
     Chars("CAF") \o <<"U+201", NBSP, "!">>,
     Chars("caf") \o <<"U+233", NBSP, "U+187">>,
     <<"U+233", "t", "U+233">>}

\* Double-encoded texts (UTF-8 bytes read as Latin-1), and texts that are
\* close to one: an overlong form, a surrogate, a code point above U+10FFFF,
\* a sequence cut short.
EncodedTexts ==
    {Chars("caf") \o <<"U+195", "U+169">>,
     <<"U+226", "U+130", "U+172">>,
     <<"U+240", "U+159", "U+152", "U+133">>,
     <<"U+240", "U+159", "U+152", "U+133", "!">>,
     <<"U+192", "U+128", "a">>,
     <<"U+237", "U+160", "U+128">>,
     <<"U+244", "U+144", "U+128", "U+128">>,
     <<"U+240", "U+159", "U+152">>,
     <<"U+226", "U+130", "a">>,
     <<"U+195", "U+169", NNBSP>>}

Texts ==
    UNION {[1..n -> TextChars] : n \in 0..MaxText}
        \cup CleanTexts \cup EncodedTexts

NoRepair == [raised |-> FALSE, text |-> <<>>]

InitRepair ==
    /\ input \in {[form |-> "text", text |-> t] : t \in Texts}
    /\ rawText = input.text
    /\ pc = "input"
    /\ result = NoRepair
    /\ Mounted

\* content: fixMojibake(msg.content)
Repair ==
    /\ pc = "input"
    /\ result' = [raised |-> FALSE, text |-> fixMojibake(rawText)]
    /\ pc' = "done"
    /\ UNCHANGED <<input, rawText, uiVars, aiVars>>
    /\ UNCHANGED translator

NextRepair == Repair

SpecRepair == InitRepair /\ [][NextRepair]_vars

---------------------------------------------------------------------------
(* The component: the text is edited in the textarea or reset, the effect  *)
(* on rawText runs after the render that follows, a sender is selected     *)
(* for a side.  pc is "effect" while the effect of the last change of      *)
(* rawText has not run yet; it runs before the next event is handled.      *)

\* The texts typed or pasted into the textarea: none (all text deleted),
\* one to three senders, JSON, text without any header, white space.
UiTexts ==
    {<<>>,
     Chars("Sam: hi"),
     Chars("Sam: hi\nRobin: on my way"),
     Chars("Robin: yo\nSam: hi\nRobin: ok"),
     Chars("Al Z: hello\nSam: hi\nRobin: ok"),
     Chars("[{\"role\":\"user\",\"content\":\"hi\"},{\"role\":\"assistant\",\"content\":\"yo\"}]"),
     Chars("hello"),
     <<" ">>}

\* participants.includes(name)
includes(array, x) == \E i \in 1..Len(array) : array[i] = x

\* A parseChat whose participants were kept from one call to the next.
invokeAccumulating(previous, text, rnd) ==
    Bind(parseChat(text, rnd), LAMBDA r :
        [r EXCEPT !.participants = previous.participants \o r.participants])

\* The call parseChat(rawText) that follows the call that returned previous:
\* parseChat keeps its messages and participants in locals of the call, so
\* nothing of previous is in what it returns.
invoke(previous, text, rnd) == parseChat(text, rnd)

InitUI ==
    /\ input = [form |-> "typed", text |-> <<>>, before |-> <<>>]
    /\ rawText = <<>>
    /\ pc = "idle"
    /\ result = NoResult
    /\ Mounted

\* onChange={(e) => setRawText(e.target.value)}
Change(text) ==
    /\ pc = "idle"
    /\ step = "input"
    /\ text # rawText
    /\ rawText' = text
    /\ input' = [form |-> "typed", text |-> text, before |-> rawText]
    /\ pc' = "effect"
    /\ UNCHANGED <<result, uiVars, aiVars>>
    /\ UNCHANGED translator

\* onClick={() => { setRawText(''); setDetectedParticipants([]); }}
Reset ==
    /\ pc = "idle"
    /\ step = "input"
    /\ rawText' = <<>>
    /\ detectedParticipants' = <<>>
    /\ input' = [form |-> "typed", text |-> <<>>, before |-> rawText]
    /\ pc' = IF rawText = <<>> THEN "idle" ELSE "effect"
    /\ UNCHANGED <<result, leftOriginal, leftAlias, rightOriginal,
                   rightAlias, analysisData, isAnalysisOpen, aiVars>>
    /\ UNCHANGED translator

\* An auto-assign that does not look at the selection.
autoAssignAlways(participants) ==
    IF Len(participants) > 0
    THEN /\ rightOriginal' = participants[1]
         /\ rightAlias' = participants[1]
         /\ leftOriginal' = IF Len(participants) >= 2 THEN participants[2]
                            ELSE <<>>
         /\ leftAlias' = IF Len(participants) >= 2 THEN participants[2]
                         ELSE <<>>
    ELSE UNCHANGED <<leftOriginal, leftAlias, rightOriginal, rightAlias>>

\* Smart Auto-Assign.
autoAssign(participants) ==
    LET leftIsValid == includes(participants, leftOriginal)
        rightIsValid == includes(participants, rightOriginal)
    IN  IF (~leftIsValid \/ ~rightIsValid) /\ Len(participants) > 0
        THEN IF Len(participants) >= 2
             THEN /\ rightOriginal' = participants[1]
                  /\ rightAlias' = participants[1]
                  /\ leftOriginal' = participants[2]
                  /\ leftAlias' = participants[2]
             ELSE /\ rightOriginal' = participants[1]
                  /\ rightAlias' = participants[1]
                  /\ leftOriginal' = <<>>
                  /\ leftAlias' = <<>>
        ELSE UNCHANGED <<leftOriginal, leftAlias, rightOriginal, rightAlias>>

\* useEffect(() => { if (rawText) { ... } }, [rawText])
Effect ==
    /\ pc = "effect"
    /\ pc' = "idle"
    /\ UNCHANGED <<input, rawText>>
    /\ UNCHANGED <<step, isAnalyzing, isPredicting, requests, predicts>>
    /\ IF rawText # <<>>
       THEN /\ \E rnd \in RandomStreams :
                   result' = invoke(result, rawText, rnd)
            /\ detectedParticipants' = result'.participants
            /\ analysisData' = null
            /\ analysisOf' = <<>>
            /\ isAnalysisOpen' = FALSE
            /\ autoAssign(result'.participants)
       ELSE UNCHANGED <<result, uiVars, analysisOf>>
    /\ UNCHANGED translator

\* handleLeftSelect, with one of the options of the select.
LeftSelect(val) ==
    /\ pc = "idle"
    /\ step = "input"
    /\ includes(detectedParticipants, val)
    /\ leftOriginal' = val
    /\ leftAlias' = IF leftAlias = <<>> \/ includes(detectedParticipants, leftAlias)
                    THEN val ELSE leftAlias
    /\ UNCHANGED <<input, rawText, pc, result, detectedParticipants,
                   rightOriginal, rightAlias, analysisData, isAnalysisOpen,
                   aiVars>>
    /\ UNCHANGED translator

\* handleRightSelect, with one of the options of the select.
RightSelect(val) ==
    /\ pc = "idle"
    /\ step = "input"
    /\ includes(detectedParticipants, val)
    /\ rightOriginal' = val
    /\ rightAlias' = IF rightAlias = <<>> \/ includes(detectedParticipants, rightAlias)
                     THEN val ELSE rightAlias
    /\ UNCHANGED <<input, rawText, pc, result, detectedParticipants,
                   leftOriginal, leftAlias, analysisData, isAnalysisOpen,
                   aiVars>>
    /\ UNCHANGED translator

\* onChange={setLeftAlias}, onChange={setRightAlias}: the "Display As"
\* boxes, shown when participants were detected.
LeftAliasEdit(alias) ==
    /\ pc = "idle"
    /\ step = "input"
    /\ detectedParticipants # <<>>
    /\ leftAlias' = alias
    /\ UNCHANGED <<input, rawText, pc, result, detectedParticipants,
                   leftOriginal, rightOriginal, rightAlias, analysisData,
                   isAnalysisOpen, aiVars>>
    /\ UNCHANGED translator

RightAliasEdit(alias) ==
    /\ pc = "idle"
    /\ step = "input"
    /\ detectedParticipants # <<>>
    /\ rightAlias' = alias
    /\ UNCHANGED <<input, rawText, pc, result, detectedParticipants,
                   leftOriginal, leftAlias, rightOriginal, analysisData,
                   isAnalysisOpen, aiVars>>
    /\ UNCHANGED translator

\* handleVisualize: an alert and nothing else when a side has no sender.
handleVisualize ==
    /\ pc = "idle"
    /\ step = "input"
    /\ step' = IF leftOriginal = <<>> \/ rightOriginal = <<>>
               THEN step ELSE "preview"
    /\ UNCHANGED <<input, rawText, pc, result, uiVars, isAnalyzing,
                   isPredicting, requests, predicts, analysisOf>>
    /\ UNCHANGED translator

\* The Config button: onClick={() => setStep('input')}
Config ==
    /\ pc = "idle"
    /\ step = "preview"
    /\ step' = "input"
    /\ UNCHANGED <<input, rawText, pc, result, uiVars, isAnalyzing,
                   isPredicting, requests, predicts, analysisOf>>
    /\ UNCHANGED translator

---------------------------------------------------------------------------
(* The AI features.  callGemini is awaited: a request is in requests from  *)
(* the call to the return, and requests return in any order.  What the     *)
(* handler reads after the await are the constants of the render in which  *)
(* it was called, kept in the request.                                      *)

\* getProcessedMessages: the messages of the two selected senders, each
\* with its side and display name.
Processed(msg) ==
    IF msg.sender = leftOriginal
    THEN <<[sender |-> msg.sender, content |-> msg.content, side |-> "left",
            displayName |-> IF leftAlias # <<>> THEN leftAlias
                            ELSE leftOriginal]>>
    ELSE IF msg.sender = rightOriginal
    THEN <<[sender |-> msg.sender, content |-> msg.content, side |-> "right",
            displayName |-> IF rightAlias # <<>> THEN rightAlias
                            ELSE rightOriginal]>>
    ELSE <<>>

RECURSIVE MapProcessed(_, _)
MapProcessed(messages, k) ==
    IF k > Len(messages) THEN <<>>
    ELSE Processed(messages[k]) \o MapProcessed(messages, k + 1)

getProcessedMessages(rnd) == MapProcessed(parseChat(rawText, rnd).messages, 1)

\* Array.prototype.slice(-50)
SliceLast == 50

slice(array) ==
    IF Len(array) <= SliceLast THEN array
    ELSE SubSeq(array, Len(array) - SliceLast + 1, Len(array))

\* String.prototype.toLowerCase (ASCII letters).
toLowerCase(str) ==
    [k \in 1..Len(str) |->
        IF \E i \in 1..Len(UpperCase) : UpperCase[i] = str[k]
        THEN LowerCase[CHOOSE i \in 1..Len(UpperCase) : UpperCase[i] = str[k]]
        ELSE str[k]]

Request(kind, text, speaker, force) ==
    [kind |-> kind, rawText |-> text, nextSpeakerOriginal |-> speaker,
     forceRefresh |-> force]

RemoveAt(seq, i) == Sub(seq, 1, i - 1) \o Sub(seq, i + 1, Len(seq))

\* The most clicks of Predict Next Reply in a behaviour.
MaxPredicts == 1

\* handlePredictNext up to the await.  With no displayed message lastMsg is
\* undefined and reading lastMsg.sender throws a TypeError: the handler ends
\* there, after setIsPredicting(true).
PredictClick ==
    /\ pc = "idle"
    /\ step = "preview"
    /\ ~isPredicting
    /\ predicts < MaxPredicts
    /\ predicts' = predicts + 1
    /\ isPredicting' = TRUE
    /\ \E rnd \in RandomStreams :
          LET msgs == slice(getProcessedMessages(rnd))
              lastMsg == msgs[Len(msgs)]
              nextSpeakerOriginal ==
                  IF lastMsg.sender = leftOriginal THEN rightOriginal
                  ELSE leftOriginal
          IN  requests' =
                  IF msgs = <<>> THEN requests
                  ELSE Append(requests, Request("predict", rawText,
                                                nextSpeakerOriginal, FALSE))
    /\ UNCHANGED <<input, rawText, pc, result, uiVars, step, isAnalyzing,
                   analysisOf>>
    /\ UNCHANGED translator

\* What callGemini returns: a text, or null after a failure.
Failure == [ok |-> FALSE, text |-> <<>>]
Completion(text) == [ok |-> TRUE, text |-> text]

\* if (prediction), if (result)
Returned(completion) == completion.ok /\ completion.text # <<>>

\* new Date(): the UTC date, the local hours and minutes.
Clocks ==
    {[dateStr |-> Chars("2025-06-12"), hours |-> 9, minutes |-> 5],
     [dateStr |-> Chars("2025-12-31"), hours |-> 23, minutes |-> 59]}

\* toString().padStart(2, '0')
padStart(n) == IF n < 10 THEN <<"0">> \o NatToString(n) ELSE NatToString(n)

\* newLine
newLine(now, nextSpeakerOriginal, prediction) ==
    <<"\n">> \o now.dateStr \o Chars(", ") \o NatToString(now.hours)
        \o <<":">> \o padStart(now.minutes) \o <<" ">>
        \o (IF now.hours >= 12 THEN Chars("p.m.") ELSE Chars("a.m."))
        \o Chars(" - ") \o nextSpeakerOriginal \o Chars(": ")
        \o trim(prediction)

\* jsonContent.messages.push(newMsgObj): the messages member that a read of
\* jsonContent.messages gives is the last of that name.
PushMessages(obj, item) ==
    LET at == {i \in 1..Len(obj.members) :
                  obj.members[i].key = Chars("messages")}
        last == CHOOSE i \in at : \A j \in at : j <= i
    IN  JObj([obj.members EXCEPT
                 ![last].val = JArr(Append(obj.members[last].val.items, item))])

\* The document after a prediction, with the text taken from the handler's
\* own render where the code reads rawText and from the current state where
\* it updates prev.
appendPrediction(closure, prev, nextSpeakerOriginal, prediction, now) ==
    Bind(stripFences(trim(closure)), LAMBDA cleanedRaw :
    Bind(IF At(cleanedRaw, 1, {"{", "["}) THEN JSONparse(cleanedRaw)
         ELSE SyntaxError, LAMBDA parsed :
    Bind(Element(JStr(toLowerCase(nextSpeakerOriginal)),
                 JStr(trim(prediction))), LAMBDA newMsgObj :
        IF parsed.ok /\ parsed.val.t = "arr"
        THEN Stringify(JArr(Append(parsed.val.items, newMsgObj)), "pretty", 0)
        ELSE IF /\ parsed.ok
                /\ Truthy(Get(parsed.val, Chars("messages")))
                /\ Get(parsed.val, Chars("messages")).t = "arr"
        THEN Stringify(PushMessages(parsed.val, newMsgObj), "pretty", 0)
        ELSE prev \o newLine(now, nextSpeakerOriginal, prediction))))

\* handlePredictNext from the await on.
PredictReturns(i, prediction, now) ==
    /\ pc = "idle"
    /\ i \in 1..Len(requests)
    /\ requests[i].kind = "predict"
    /\ requests' = RemoveAt(requests, i)
    /\ isPredicting' = FALSE
    /\ rawText' = IF Returned(prediction)
                  THEN appendPrediction(requests[i].rawText, rawText,
                           requests[i].nextSpeakerOriginal, prediction.text,
                           now)
                  ELSE rawText
    /\ pc' = IF rawText' # rawText THEN "effect" ELSE "idle"
    /\ input' = IF rawText' # rawText
                THEN [form |-> "predicted", text |-> rawText',
                      before |-> rawText, prediction |-> prediction.text]
                ELSE input
    /\ UNCHANGED <<result, uiVars, step, isAnalyzing, predicts, analysisOf>>
    /\ UNCHANGED translator

\* A handleAnalyzeChat that asks again although an analysis is cached.
handleAnalyzeChatUncached(forceRefresh) ==
    /\ pc = "idle"
    /\ step = "preview"
    /\ IF isAnalyzing /\ ~forceRefresh
       THEN /\ isAnalysisOpen' = (Truthy(analysisData) \/ isAnalysisOpen)
            /\ UNCHANGED <<isAnalyzing, requests>>
       ELSE /\ isAnalyzing' = TRUE
            /\ requests' = Append(requests, Request("analyze", rawText, <<>>,
                                                    forceRefresh))
            /\ UNCHANGED isAnalysisOpen
    /\ UNCHANGED <<input, rawText, pc, result, detectedParticipants,
                   leftOriginal, leftAlias, rightOriginal, rightAlias,
                   analysisData, step, isPredicting, predicts, analysisOf>>
    /\ UNCHANGED translator

\* handleAnalyzeChat(forceRefresh) up to the await.
handleAnalyzeChat(forceRefresh) ==
    /\ pc = "idle"
    /\ step = "preview"
    /\ IF isAnalyzing /\ ~forceRefresh
       THEN /\ isAnalysisOpen' = (Truthy(analysisData) \/ isAnalysisOpen)
            /\ UNCHANGED <<isAnalyzing, requests>>
       ELSE IF Truthy(analysisData) /\ ~forceRefresh
       THEN /\ isAnalysisOpen' = TRUE
            /\ UNCHANGED <<isAnalyzing, requests>>
       ELSE /\ isAnalyzing' = TRUE
            /\ requests' = Append(requests, Request("analyze", rawText, <<>>,
                                                    forceRefresh))
            /\ UNCHANGED isAnalysisOpen
    /\ UNCHANGED <<input, rawText, pc, result, detectedParticipants,
                   leftOriginal, leftAlias, rightOriginal, rightAlias,
                   analysisData, step, isPredicting, predicts, analysisOf>>
    /\ UNCHANGED translator

\* The Insights button, disabled while isAnalyzing.
Insights ==
    /\ ~isAnalyzing
    /\ handleAnalyzeChat(FALSE)

\* The Refresh button of the analysis panel, disabled while isAnalyzing.
Refresh ==
    /\ isAnalysisOpen
    /\ ~isAnalyzing
    /\ handleAnalyzeChat(TRUE)

\* The close button of the analysis panel.
ClosePanel ==
    /\ pc = "idle"
    /\ step = "preview"
    /\ isAnalysisOpen
    /\ isAnalysisOpen' = FALSE
    /\ UNCHANGED <<input, rawText, pc, result, detectedParticipants,
                   leftOriginal, leftAlias, rightOriginal, rightAlias,
                   analysisData, aiVars>>
    /\ UNCHANGED translator

\* String.prototype.replace(/word/g, '')
RECURSIVE removeAll(_, _)
removeAll(str, word) ==
    IF str = <<>> THEN <<>>
    ELSE IF StartsWith(str, 1, word)
    THEN removeAll(Sub(str, Len(word) + 1, Len(str)), word)
    ELSE <<str[1]>> \o removeAll(Sub(str, 2, Len(str)), word)

\* The object set when the text is no JSON.
Fallback(text) ==
    JObj(<<Member("summary", JStr(text)),
           Member("tone", JStr(Chars("Analytical"))),
           Member("dynamic", JStr(Chars("Complex interaction detected."))),
           Member("key_topics", JArr(<<>>))>>)

\* const data = JSON.parse(jsonString), and what the catch sets instead.
analysisDataOf(text) ==
    Bind(<<BackTick, BackTick, BackTick>>, LAMBDA fence :
    Bind(JSONparse(trim(removeAll(removeAll(text, fence \o Chars("json")),
                                  fence))), LAMBDA data :
        IF data.ok THEN data.val ELSE Fallback(text)))

\* handleAnalyzeChat from the await on.
AnalyzeReturns(i, completion) ==
    /\ pc = "idle"
    /\ i \in 1..Len(requests)
    /\ requests[i].kind = "analyze"
    /\ requests' = RemoveAt(requests, i)
    /\ isAnalyzing' = FALSE
    /\ IF Returned(completion)
       THEN /\ analysisData' = analysisDataOf(completion.text)
            /\ analysisOf' = requests[i].rawText
            /\ isAnalysisOpen' = TRUE
       ELSE UNCHANGED <<analysisData, analysisOf, isAnalysisOpen>>
    /\ UNCHANGED <<input, rawText, pc, result, detectedParticipants,
                   leftOriginal, leftAlias, rightOriginal, rightAlias,
                   step, isPredicting, predicts>>
    /\ UNCHANGED translator

\* The senders of the texts.
Names == {Chars("Sam"), Chars("Robin"), Chars("Al Z"), Chars("User"),
          Chars("Assistant")}

\* The names typed into the "Display As" boxes.
Aliases == {Chars("Me")}

\* What the collaborator answers to the prediction prompt: a line with white
\* space around it, two lines of which the second reads as a header, nothing,
\* or a failure.
PredictionTexts ==
    {Chars(" on my way \n"), Chars("ok\nSam: hi")}

Predictions ==
    {Failure, Completion(<<>>)} \cup {Completion(t) : t \in PredictionTexts}

\* What the collaborator answers to the analysis prompt: the JSON object
\* asked for in a markdown code block, other JSON, prose, or a failure.
AnalysisTexts ==
    {<<BackTick, BackTick, BackTick>> \o Chars("json\n{\"summary\":\"s\"}\n")
         \o <<BackTick, BackTick, BackTick>>,
     Chars("null"),
     Chars("Sorry, no.")}

Analyses == {Failure} \cup {Completion(t) : t \in AnalysisTexts}

NextUI ==
    \/ \E text \in UiTexts : Change(text)
    \/ Reset
    \/ Effect
    \/ \E val \in Names : LeftSelect(val)
    \/ \E val \in Names : RightSelect(val)
    \/ \E alias \in Aliases : LeftAliasEdit(alias)
    \/ \E alias \in Aliases : RightAliasEdit(alias)

SpecUI == InitUI /\ [][NextUI]_vars

\* The whole component, with the senders that auto-assign selects, on a
\* text of two senders, JSON of two roles (lower case, and not), JSON in an
\* object, and a text without messages.
AiTexts ==
    {Chars("Sam: hi\nRobin: on my way"),
     Chars("[{\"role\":\"user\",\"content\":\"hi\"},{\"role\":\"assistant\",\"content\":\"yo\"}]"),
     Chars("[{\"role\":\"AI\",\"content\":\"hi\"},{\"role\":\"Human\",\"content\":\"yo\"}]"),
     Chars("hello")}

NextAI ==
    \/ \E text \in AiTexts : Change(text)
    \/ Effect
    \/ handleVisualize
    \/ Config
    \/ PredictClick
    \/ \E i \in 1..Len(requests), prediction \in Predictions, now \in Clocks :
          PredictReturns(i, prediction, now)
    \/ Insights
    \/ Refresh
    \/ ClosePanel
    \/ \E i \in 1..Len(requests), completion \in Analyses :
          AnalyzeReturns(i, completion)

SpecAI == InitUI /\ [][NextAI]_vars

\* Predict Next Reply alone, with fairness: the effect runs after every
\* render that changed rawText, and fetch settles (callGemini catches a
\* rejection), so every awaited call returns.
NextPredict ==
    \/ \E text \in AiTexts : Change(text)
    \/ Effect
    \/ handleVisualize
    \/ Config
    \/ PredictClick
    \/ \E i \in 1..Len(requests), prediction \in Predictions, now \in Clocks :
          PredictReturns(i, prediction, now)

\* The steps of Effect, and of PredictReturns: no other action takes pc from
\* "effect" to "idle", or a prediction request out of requests.  The
\* continuation of an awaited call runs between two events whatever the
\* user does, so editing the text for ever does not keep it from running
\* (strong fairness).
EffectStep == pc = "effect" /\ pc' = "idle"

PredictReturnsStep ==
    /\ pc = "idle"
    /\ \E i \in 1..Len(requests) :
          requests[i].kind = "predict" /\ requests' = RemoveAt(requests, i)

FairSpecPredict ==
    /\ InitUI
    /\ [][NextPredict]_vars
    /\ WF_pc(EffectStep)
    /\ SF_requests(PredictReturnsStep)

---------------------------------------------------------------------------
(* AI_Translator: the text is debounced, and every change of the debounced *)
(* text or of a language starts a request of its own.                      *)

\* The most requests in flight together.
MaxFetches == 2

TranslatorTexts == {<<>>, <<" ">>, Chars("hi"), Chars("bye")}

SourceCodes == {"auto", "en"}

TargetCodes == {"en", "es"}

\* ChadBot is not mounted while the translator is used.
ChadBotAside == UNCHANGED <<input, rawText, pc, result, uiVars, aiVars>>

\* A render that changed one of [debouncedText, sourceLang, targetLang1,
\* targetLang2] is followed by the translate effect.
Rendered(next) ==
    [next EXCEPT !.pc =
        IF <<next.debouncedText, next.sourceLang, next.targetLang1,
             next.targetLang2>>
           # <<translator.debouncedText, translator.sourceLang,
               translator.targetLang1, translator.targetLang2>>
        THEN "effect" ELSE "idle"]

\* useDebounce's effect on [value, delay]: the cleanup clears the timer of
\* the value before, and a new one is started.
useDebounce(next) ==
    IF next.inputText # translator.inputText
    THEN [next EXCEPT !.timeout = [value |-> next.inputText]]
    ELSE next

\* onChange={(e) => setInputText(e.target.value)}
TypeInput(text) ==
    /\ translator.pc = "idle"
    /\ text # translator.inputText
    /\ translator' = useDebounce([translator EXCEPT !.inputText = text])
    /\ ChadBotAside

\* clearInput, the button shown when inputText is not empty.
clearInput ==
    /\ translator.pc = "idle"
    /\ translator.inputText # <<>>
    /\ translator' = useDebounce([translator EXCEPT !.inputText = <<>>,
                                                    !.result = null,
                                                    !.detectedSource = null])
    /\ ChadBotAside

\* The timer of useDebounce fires: setDebouncedValue(value).
DebounceFires ==
    /\ translator.pc = "idle"
    /\ translator.timeout # null
    /\ Len(translator.fetches) < MaxFetches
    /\ translator' = Rendered([translator EXCEPT
                                  !.debouncedText = translator.timeout.value,
                                  !.timeout = null])
    /\ ChadBotAside

\* onChange={setSourceLang}, and onChange={setTargetLang1} with
\* exclude={['auto', targetLang2]}
SetSourceLang(code) ==
    /\ translator.pc = "idle"
    /\ code # translator.sourceLang
    /\ Len(translator.fetches) < MaxFetches
    /\ translator' = Rendered([translator EXCEPT !.sourceLang = code])
    /\ ChadBotAside

SetTargetLang1(code) ==
    /\ translator.pc = "idle"
    /\ code # translator.targetLang1
    /\ code # translator.targetLang2
    /\ Len(translator.fetches) < MaxFetches
    /\ translator' = Rendered([translator EXCEPT !.targetLang1 = code])
    /\ ChadBotAside

swapLanguages ==
    /\ translator.pc = "idle"
    /\ Len(translator.fetches) < MaxFetches
    /\ translator' = Rendered([translator EXCEPT
                                  !.targetLang1 = translator.targetLang2,
                                  !.targetLang2 = translator.targetLang1])
    /\ ChadBotAside

\* What the prompt is made of.
Prompt ==
    [debouncedText |-> translator.debouncedText,
     sourceLang |-> translator.sourceLang,
     targetLang1 |-> translator.targetLang1,
     targetLang2 |-> translator.targetLang2]

\* The translate effect up to the await of fetch.
translate ==
    /\ translator.pc = "effect"
    /\ translator' =
          IF trim(translator.debouncedText) = <<>>
          THEN [translator EXCEPT !.result = null, !.detectedSource = null,
                                  !.pc = "idle"]
          ELSE [translator EXCEPT !.isLoading = TRUE, !.error = null,
                                  !.fetches = Append(@, Prompt),
                                  !.pc = "idle"]
    /\ ChadBotAside

\* The JSON the collaborator is asked for, for a prompt.
jsonResult(prompt) ==
    [detectedSource |-> [language |-> <<prompt.sourceLang,
                                        prompt.debouncedText>>],
     t1 |-> <<prompt.debouncedText, prompt.targetLang1>>,
     t2 |-> <<prompt.debouncedText, prompt.targetLang2>>]

ServiceError == [message |-> "Translation service temporarily unavailable."]

\* What a request comes back with: the JSON asked for, a response with no
\* candidate text, or an error (fetch rejects, data.error, JSON.parse
\* throws).
Outcomes == {"content", "empty", "error"}

\* The translate effect from the await on, for any of the requests in
\* flight: they settle in any order.
Responds(i, outcome) ==
    /\ translator.pc = "idle"
    /\ i \in 1..Len(translator.fetches)
    /\ translator' =
          Bind([translator EXCEPT !.fetches = RemoveAt(@, i),
                                  !.isLoading = FALSE], LAMBDA settled :
              IF outcome = "content"
              THEN [settled EXCEPT
                       !.result = jsonResult(translator.fetches[i]),
                       !.detectedSource =
                           jsonResult(translator.fetches[i]).detectedSource]
              ELSE IF outcome = "error"
              THEN [settled EXCEPT !.error = ServiceError]
              ELSE settled)
    /\ ChadBotAside

NextTranslator ==
    \/ \E text \in TranslatorTexts : TypeInput(text)
    \/ clearInput
    \/ DebounceFires
    \/ \E code \in SourceCodes : SetSourceLang(code)
    \/ \E code \in TargetCodes : SetTargetLang1(code)
    \/ swapLanguages
    \/ translate
    \/ \E i \in 1..Len(translator.fetches), outcome \in Outcomes :
          Responds(i, outcome)

SpecTranslator == InitUI /\ [][NextTranslator]_vars

---------------------------------------------------------------------------
(* What a document of line descriptors says, read off the descriptors.     *)

HeaderKinds == {"android_iso", "ios_brackets", "android_short", "generic"}

DatedKinds == {"android_iso", "ios_brackets", "android_short"}

IsHeader(line) == line.kind \in HeaderKinds

\* The positions of the header lines of a document.
Headers(lines) == {i \in 1..Len(lines) : IsHeader(lines[i])}

\* The header line that line i belongs to: the last one at or before i
\* (0 if there is none).
Owner(lines, i) ==
    LET before == {h \in Headers(lines) : h <= i}
    IN  IF before = {} THEN 0 ELSE CHOOSE h \in before : \A g \in before : g <= h

\* The position in the result of the message of header line h.
Rank(lines, h) == Cardinality({g \in Headers(lines) : g <= h})

\* The continuation lines of header h, each after a line feed, from line i on.
RECURSIVE Continued(_, _, _)
Continued(lines, h, i) ==
    IF i > Len(lines) \/ Owner(lines, i) # h THEN <<>>
    ELSE (IF lines[i].kind = "plain" THEN <<"\n">> \o lines[i].content ELSE <<>>)
         \o Continued(lines, h, i + 1)

\* The content of the message of header line h.
WrittenContent(lines, h) == lines[h].content \o Continued(lines, h, h + 1)

LinesDone == pc = "done" /\ input.form = "lines"

\* The first line of a content.
FirstLine(content) ==
    LET n == FindClass(content, 1, {"\n"})
    IN  IF n = 0 THEN content ELSE Sub(content, 1, n - 1)

\* The message the result holds for header line h of the document.
MessageOf(h) == result.messages[Rank(input.lines, h)]

\* Header line h was read as its descriptor says.
ReadAsWritten(h) ==
    /\ Rank(input.lines, h) <= Len(result.messages)
    /\ MessageOf(h).date = input.lines[h].date
    /\ MessageOf(h).time = input.lines[h].time
    /\ MessageOf(h).sender = input.lines[h].sender
    /\ FirstLine(MessageOf(h).content) = input.lines[h].content

---------------------------------------------------------------------------
(* The claims.                                                             *)

\* C1: parseChat raises for no input: it always returns a result with
\* messages and participants; a document that fails to parse as JSON, or
\* whose JSON makes the loop throw, is parsed as lines instead.
C1_NeverRaises ==
    pc = "done" =>
        /\ ~result.raised
        /\ DOMAIN result.messages = 1..Len(result.messages)
        /\ DOMAIN result.participants = 1..Len(result.participants)

\* C1 witness: the JSON fast path threw and the line parser gave a message.
C1_Witness ==
    /\ pc = "done"
    /\ jsonFastPath(rawText, <<"r1">>).kind = "throw"
    /\ ~result.raised
    /\ result.messages # <<>>

\* C2: a line is read by the first pattern, in the order android_iso,
\* ios_brackets, android_short, generic, that matches it; a line written as
\* "YYYY-MM-DD, H:MM a.m. - Sender: Message" gives the ISO date, the time
\* "H:MM" plus the meridiem, Sender and Message, never the generic reading.
C2_FormatPrecedence ==
    LinesDone =>
        /\ \A h \in Headers(input.lines) :
              input.lines[h].kind = "android_iso" =>
                  ReadAsWritten(h) /\ MessageOf(h).date # Unknown
        /\ \A i \in 1..Len(input.lines) :
              LET line == cleanText(trim(input.lines[i].text))
                  hits == {k \in 1..Len(patterns) : Apply(patterns[k], line).ok}
              IN  extract(line) =
                      IF hits = {} THEN NoMatch
                      ELSE Apply(patterns[CHOOSE k \in hits :
                                              \A j \in hits : k <= j], line)

\* C2 witness: an android_iso line with a colon in its message was read.
C2_Witness ==
    /\ LinesDone
    /\ \E h \in Headers(input.lines) :
          /\ input.lines[h].kind = "android_iso"
          /\ input.lines[h].content = WithColon
          /\ MessageOf(h).content = WithColon

\* C3: a non-blank line that matches no header pattern is appended, after a
\* line feed, to the content of the message of the last header line before
\* it, and makes no message; with no header line before it, it is dropped.
C3_ContinuationMerge ==
    LinesDone =>
        /\ Len(result.messages) = Cardinality(Headers(input.lines))
        /\ \A h \in Headers(input.lines) :
              MessageOf(h).content = WrittenContent(input.lines, h)

\* C3 witness: one line was dropped and another appended to a message.
C3_Witness ==
    /\ LinesDone
    /\ \E i, j \in 1..Len(input.lines) :
          /\ input.lines[i].kind = "plain" /\ Owner(input.lines, i) = 0
          /\ input.lines[j].kind = "plain" /\ Owner(input.lines, j) # 0
          /\ MessageOf(Owner(input.lines, j)).content =
                 input.lines[Owner(input.lines, j)].content
                     \o <<"\n">> \o input.lines[j].content

Elements == IF input.value.t = "arr" THEN input.value.items ELSE <<>>

\* The elements with a role and a content.
GoodOnly(items) == SelectSeq(items, LAMBDA e : e \in GoodElements)

\* The sender written in a good element: its role, first letter in capital.
WrittenSender(e) ==
    IF e.members[1].val = User THEN Chars("User") ELSE Chars("Assistant")

\* A finished parse of a JSON array of elements with role and content and of
\* elements that lack one of them.
JsonDone ==
    /\ pc = "done"
    /\ input.form = "json"
    /\ \A k \in 1..Len(Elements) :
          Elements[k] \in GoodElements \cup LackingElements

\* C5: when the document parses as JSON and holds at least one element with
\* role and content, the result is one message for each such element, in
\* array order, with the capitalized role as sender and empty date and time,
\* and the participants are the distinct senders.
C5_JsonFastPath ==
    (JsonDone /\ GoodOnly(Elements) # <<>>) =>
        /\ Len(result.messages) = Len(GoodOnly(Elements))
        /\ \A k \in 1..Len(result.messages) :
              /\ result.messages[k].sender = WrittenSender(GoodOnly(Elements)[k])
              /\ result.messages[k].date = <<>>
              /\ result.messages[k].time = <<>>
        /\ {result.participants[k] : k \in 1..Len(result.participants)}
               = {WrittenSender(GoodOnly(Elements)[k]) :
                      k \in 1..Len(GoodOnly(Elements))}

\* C6: on both paths the participants are the distinct senders of the
\* messages, each once, in the order of their first messages.
C6_ParticipantsOrder ==
    pc = "done" =>
        LET P == result.participants
            S == [k \in 1..Len(result.messages) |-> result.messages[k].sender]
            first(x) == CHOOSE k \in 1..Len(S) :
                            S[k] = x /\ \A j \in 1..(k - 1) : S[j] # x
        IN  /\ \A a, b \in 1..Len(P) : a # b => P[a] # P[b]
            /\ {P[a] : a \in 1..Len(P)} = {S[k] : k \in 1..Len(S)}
            /\ \A a, b \in 1..Len(P) : a < b => first(P[a]) < first(P[b])

\* C6 witness: three messages, the third from the sender of the first, give
\* two participants.
C6_Witness ==
    /\ pc = "done"
    /\ Len(result.messages) = 3
    /\ result.messages[1].sender = result.messages[3].sender
    /\ result.messages[1].sender # result.messages[2].sender
    /\ result.participants =
           <<result.messages[1].sender, result.messages[2].sender>>

\* C7: the line parser gives one message for each header line, in the order
\* of the lines; blank lines and continuations add, remove and reorder
\* nothing, and the message of the last header line is in the result.
C7_MessageOrder ==
    LinesDone =>
        /\ Len(result.messages) = Cardinality(Headers(input.lines))
        /\ \A h \in Headers(input.lines) :
              /\ MessageOf(h).sender = input.lines[h].sender
              /\ FirstLine(MessageOf(h).content) = input.lines[h].content

\* C7 witness: two header lines with a blank line and a continuation.
C7_Witness ==
    /\ LinesDone
    /\ Len(result.messages) = 2
    /\ \E i, j \in 1..Len(input.lines) :
          input.lines[i].kind = "blank" /\ input.lines[j].kind = "plain"
    /\ result.messages[2].sender = input.lines[Len(input.lines)].sender

\* C8, as stated: every message made from a header line has a content that
\* is not empty.
C8_ContentNeverEmpty ==
    LinesDone =>
        \A k \in 1..Len(result.messages) : result.messages[k].content # <<>>

\* C8, amended: every message made from a generic header line (the one kind
\* that gets the date "Unknown") has a content that is not empty; a dated
\* header line with nothing after the colon of its sender gives a message
\* whose content is empty.
C8_GenericContentNeverEmpty ==
    pc = "done" =>
        /\ \A k \in 1..Len(result.messages) :
              result.messages[k].date = Unknown =>
                  result.messages[k].content # <<>>
        /\ input.form = "lines" =>
              \A h \in Headers(input.lines) :
                  (input.lines[h].kind \in DatedKinds
                      /\ WrittenContent(input.lines, h) = <<>>) =>
                          /\ Rank(input.lines, h) <= Len(result.messages)
                          /\ MessageOf(h).content = <<>>

\* C8 witness: a generic message, and a dated message with empty content.
C8_Witness ==
    /\ LinesDone
    /\ \E j, k \in 1..Len(result.messages) :
          /\ result.messages[j].date = Unknown
          /\ result.messages[j].content # <<>>
          /\ result.messages[k].date # Unknown
          /\ result.messages[k].content = <<>>

\* A message without its id.
NoId(m) ==
    [date |-> m.date, time |-> m.time, sender |-> m.sender,
     content |-> m.content]

NoIds(messages) == [k \in 1..Len(messages) |-> NoId(messages[k])]

\* C9: an array element that lacks a role or a content (or is no object) is
\* skipped without error: the messages of the other elements are, but for
\* their ids, those of the same array without such elements.
C9_ElementSkipping ==
    (/\ JsonDone
     /\ GoodOnly(Elements) # <<>>
     /\ \E k \in 1..Len(Elements) : Elements[k] \in LackingElements) =>
        NoIds(result.messages) =
            NoIds(parseChat(RenderJson(JArr(GoodOnly(Elements)), input.layout),
                            <<"r1">>).messages)

\* C10: a line written as "[D/M/Y, H:MM:SS AM] Sender: Message" (seconds and
\* meridiem optional) gives one message with the date and the time as they
\* stand in the brackets, Sender and Message.
C10_BracketFormat ==
    LinesDone =>
        \A h \in Headers(input.lines) :
            input.lines[h].kind = "ios_brackets" => ReadAsWritten(h)

\* C10 witness: "[12/06/2025, 11:20:00 AM] Robin: on my way" was read.
C10_Witness ==
    /\ LinesDone
    /\ rawText = Chars("[12/06/2025, 11:20:00 AM] Robin: on my way")
    /\ NoIds(result.messages) =
           <<[date |-> Chars("12/06/2025"), time |-> Chars("11:20:00 AM"),
              sender |-> Chars("Robin"), content |-> Chars("on my way")]>>

\* The lines "[Y-M-D, H:MM] Sender: Message", by the parts they are written
\* from.
YmdBracketLines ==
    {BracketHeader(IsoDate, Chars(", "), Chars("11:20"), Sam, Chars("hi"))}

\* C11: a line written as "[Y-M-D, H:MM] Sender: Message" is a header: the
\* result holds a message with that date, time, sender and content.
C11_BracketYmd ==
    LinesDone =>
        \A i \in 1..Len(input.lines) : \A w \in YmdBracketLines :
            input.lines[i].text = w.text =>
                \E k \in 1..Len(result.messages) :
                    /\ result.messages[k].date = w.date
                    /\ result.messages[k].time = w.time
                    /\ result.messages[k].sender = w.sender
                    /\ FirstLine(result.messages[k].content) = w.content

\* C12: no two messages of one result have the same id.
C12_UniqueIds ==
    pc = "done" =>
        \A j, k \in 1..Len(result.messages) :
            j # k => result.messages[j].id # result.messages[k].id

\* The messages the line parser made (the JSON path gives ids of three
\* parts).
FromLines(m) == Len(m.id) = 1

\* C13: a message of the line parser has a date that is not empty: the date
\* its header line holds, or "Unknown" when the line holds none; its time is
\* the time the line holds, or empty.
C13_DateDefaulting ==
    /\ pc = "done" =>
          \A k \in 1..Len(result.messages) :
              FromLines(result.messages[k]) => result.messages[k].date # <<>>
    /\ LinesDone =>
          \A h \in Headers(input.lines) :
              /\ Rank(input.lines, h) <= Len(result.messages)
              /\ MessageOf(h).date =
                     (IF input.lines[h].date = <<>> THEN Chars("Unknown")
                      ELSE input.lines[h].date)
              /\ MessageOf(h).time = input.lines[h].time

\* C13 witness: a result with a dated message and a message whose date is
\* "Unknown".
C13_Witness ==
    /\ LinesDone
    /\ \E j, k \in 1..Len(result.messages) :
          /\ result.messages[j].date = IsoDate
          /\ result.messages[j].time = Chars("11:20 a.m.")
          /\ result.messages[k].date = Chars("Unknown")
          /\ result.messages[k].time = <<>>

\* C14, as stated: a message made from a generic header line has the empty
\* string as its date, as a message of the JSON path has.
C14_GenericDateEmpty ==
    /\ LinesDone =>
          \A h \in Headers(input.lines) :
              input.lines[h].kind = "generic" =>
                  /\ Rank(input.lines, h) <= Len(result.messages)
                  /\ MessageOf(h).date = <<>>
    /\ pc = "done" =>
          \A k \in 1..Len(result.messages) :
              ~FromLines(result.messages[k]) => result.messages[k].date = <<>>

\* C14, amended: a message made from a generic header line has the date
\* "Unknown" (and an empty time); only the messages of the JSON path have the
\* empty string as their date.
C14_GenericDateUnknown ==
    /\ LinesDone =>
          \A h \in Headers(input.lines) :
              input.lines[h].kind = "generic" =>
                  /\ Rank(input.lines, h) <= Len(result.messages)
                  /\ MessageOf(h).date = Chars("Unknown")
                  /\ MessageOf(h).time = <<>>
    /\ pc = "done" =>
          \A k \in 1..Len(result.messages) :
              ~FromLines(result.messages[k]) => result.messages[k].date = <<>>

\* C14 witness: "Al Z: hello" gave one message, dated "Unknown".
C14_Witness ==
    /\ LinesDone
    /\ rawText = Chars("Al Z: hello")
    /\ Len(result.messages) = 1
    /\ result.messages[1].date = Chars("Unknown")
    /\ result.messages[1].sender = AlZ

\* C15: a text that starts, once trimmed, with "{" or "[" and is no valid
\* JSON gives, without an exception, the result of the line parser on the
\* same text; "{not valid json" gives no message and no participant.
C15_JsonFallback ==
    (pc = "done" /\ input.form = "raw" /\ input.text \in BrokenJson) =>
        /\ At(trim(rawText), 1, {"{", "["})
        /\ ~result.raised
        /\ NoIds(result.messages) =
               NoIds(lineParse(rawText, 0, <<"r1">>).messages)
        /\ result.participants = lineParse(rawText, 0, <<"r1">>).participants
        /\ rawText = Chars("{not valid json") =>
               result.messages = <<>> /\ result.participants = <<>>

\* C15 witness: "[", "Sam: hi" and "there" on three lines is no JSON and was
\* read as lines: one message of Sam.
C15_Witness ==
    /\ pc = "done"
    /\ rawText = Chars("[\nSam: hi\nthere")
    /\ NoIds(result.messages) =
           <<[date |-> Chars("Unknown"), time |-> <<>>, sender |-> Sam,
              content |-> Chars("hi\nthere")]>>
    /\ result.participants = <<Sam>>

\* The JSON value a document holds: in the layout "wrapped" the value is the
\* messages field of an object.
WrittenJson ==
    IF input.layout = "wrapped"
    THEN JObj(<<Member("model", JStr(Chars("m"))),
                Member("messages", input.value)>>)
    ELSE input.value

\* The candidate array of a JSON value as the claim gives it: a top-level
\* array itself, the messages field of an object when that field is an
\* array, nothing otherwise.
Candidate(v) ==
    IF v.t = "arr" THEN v.items
    ELSE IF \E i \in 1..Len(v.members) :
                v.members[i].key = Chars("messages") /\ v.members[i].val.t = "arr"
    THEN (CHOOSE m \in {v.members[i] : i \in 1..Len(v.members)} :
              m.key = Chars("messages")).val.items
    ELSE <<>>

\* C16: the messages come from the candidate array (a top-level array, or
\* the messages field of an object when it is an array), and a document whose
\* candidate array gives no message is parsed as lines.
C16_CandidateArray ==
    (pc = "done" /\ input.form = "json") =>
        LET cand == Candidate(WrittenJson)
            byLines == lineParse(rawText, 0, <<"r1">>)
        IN  /\ (\A k \in 1..Len(cand) : cand[k] \in LackingElements) =>
                  /\ NoIds(result.messages) = NoIds(byLines.messages)
                  /\ result.participants = byLines.participants
            /\ (/\ GoodOnly(cand) # <<>>
                 /\ \A k \in 1..Len(cand) :
                       cand[k] \in GoodElements \cup (LackingElements \ {JNull})) =>
                  /\ Len(result.messages) = Len(GoodOnly(cand))
                  /\ \A k \in 1..Len(result.messages) :
                        /\ ~FromLines(result.messages[k])
                        /\ result.messages[k].sender =
                               WrittenSender(GoodOnly(cand)[k])

\* C16 witness: an object whose messages field is an array of an element
\* with role and content and one without gave the message of the first.
C16_Witness ==
    /\ pc = "done"
    /\ input.form = "json"
    /\ input.layout = "wrapped"
    /\ input.value = JArr(<<Element(User, JStr(Chars("hi"))),
                            JObj(<<Member("role", User)>>)>>)
    /\ Len(result.messages) = 1
    /\ result.messages[1].sender = Chars("User")
    /\ ~FromLines(result.messages[1])

---------------------------------------------------------------------------
(* Mojibake repair.                                                        *)

\* C17: for every text that is already correct (not double-encoded), with or
\* without accented Latin-1 letters, fixMojibake returns the identical text.
C17_CleanUnchanged ==
    (pc = "done" /\ rawText \in CleanTexts) => result.text = rawText

\* The code unit of c lies in lo..hi.
InRange(c, lo, hi) ==
    c \in DOMAIN NonAsciiCode /\ NonAsciiCode[c] >= lo /\ NonAsciiCode[c] <= hi

\* The text holds a code unit above 255.
HasWide(text) == \E i \in 1..Len(text) : InRange(text[i], 256, 65535)

\* The code units of text from position p on, read as bytes, are well-formed
\* UTF-8: the byte sequences of table 3-7 of the Unicode standard.
RECURSIVE WellFormedUtf8(_, _)
WellFormedUtf8(text, p) ==
    LET T(k, lo, hi) == p + k <= Len(text) /\ InRange(text[p + k], lo, hi)
    IN  \/ p > Len(text)
        \/ text[p] \notin DOMAIN NonAsciiCode /\ WellFormedUtf8(text, p + 1)
        \/ T(0, 194, 223) /\ T(1, 128, 191) /\ WellFormedUtf8(text, p + 2)
        \/ /\ \/ T(0, 224, 224) /\ T(1, 160, 191)
              \/ T(0, 225, 236) /\ T(1, 128, 191)
              \/ T(0, 237, 237) /\ T(1, 128, 159)
              \/ T(0, 238, 239) /\ T(1, 128, 191)
           /\ T(2, 128, 191)
           /\ WellFormedUtf8(text, p + 3)
        \/ /\ \/ T(0, 240, 240) /\ T(1, 144, 191)
              \/ T(0, 241, 243) /\ T(1, 128, 191)
              \/ T(0, 244, 244) /\ T(1, 128, 143)
           /\ T(2, 128, 191)
           /\ T(3, 128, 191)
           /\ WellFormedUtf8(text, p + 4)

\* C18: a text that holds a code unit above 255, or whose code units read as
\* bytes are not well-formed UTF-8, is returned unchanged, nothing is raised.
C18_RepairConservative ==
    (pc = "done" /\ (HasWide(rawText) \/ ~WellFormedUtf8(rawText, 1)))
        => (~result.raised /\ result.text = rawText)

\* A text of Latin-1 characters that are not well-formed UTF-8 came back as
\* it was, and so did a double-encoded text followed by a code unit above 255.
C18_Witness ==
    /\ pc = "done"
    /\ rawText \in {Chars("caf") \o <<"U+233">>, <<"U+195", "U+169", NNBSP>>}
    /\ result.text = rawText

---------------------------------------------------------------------------
(* The component.                                                          *)

\* parseChat called on the text for the first time, with random values of
\* its own.
Fresh(text) == parseChat(text, <<"r6", "r5", "r4", "r3", "r2", "r1">>)

C20_Recomputed ==
    pc = "idle" => detectedParticipants = Fresh(rawText).participants

---------------------------------------------------------------------------
(* Predict Next Reply.                                                     *)

\* The JSON value a document holds, if it holds one.
JsonDoc(text) ==
    LET c == stripFences(trim(text))
    IN  IF At(c, 1, {"{", "["}) THEN JSONparse(c) ELSE SyntaxError

\* The array of a JSON-structured document: the value itself, or its
\* messages field.
HasArray(v) ==
    \/ v.t = "arr"
    \/ v.t = "obj" /\ Get(v, Chars("messages")).t = "arr"

ArrayOf(v) == IF v.t = "arr" THEN v.items ELSE Get(v, Chars("messages")).items

Structured(text) == JsonDoc(text).ok /\ HasArray(JsonDoc(text).val)

\* An object of a role and a content, both strings.
RoleContent(e) ==
    /\ e.t = "obj"
    /\ Len(e.members) = 2
    /\ e.members[1].key = Chars("role") /\ e.members[1].val.t = "str"
    /\ e.members[2].key = Chars("content") /\ e.members[2].val.t = "str"

\* A step in which a prediction was appended to the document.
Appended == isPredicting /\ ~isPredicting' /\ rawText' # rawText

\* after is before with one {role, content} element more at the end.
OneElementMore(before, after) ==
    /\ Structured(after)
    /\ LET a == ArrayOf(JsonDoc(before).val)
           b == ArrayOf(JsonDoc(after).val)
       IN  /\ Len(b) = Len(a) + 1
           /\ SubSeq(b, 1, Len(a)) = a
           /\ RoleContent(b[Len(b)])

\* after is before followed by one more line, which android_iso matches.
OneLineMore(before, after) ==
    /\ Len(after) > Len(before) + 1
    /\ SubSeq(after, 1, Len(before)) = before
    /\ after[Len(before) + 1] = "\n"
    /\ LET line == SubSeq(after, Len(before) + 2, Len(after))
       IN  /\ \A k \in 1..Len(line) : line[k] # "\n"
           /\ android_iso(line).ok

\* C21: when a prediction is appended, a JSON-structured document becomes
\* that JSON with one {role, content} element more at the end of its array,
\* and any other document becomes the old text followed by one new line
\* that the android_iso pattern matches.
C21_AppendFormat ==
    [][Appended =>
          IF Structured(rawText) THEN OneElementMore(rawText, rawText')
          ELSE OneLineMore(rawText, rawText')]_vars

\* C22: the document after a prediction is made from the document as it is
\* when the prediction arrives: if that one is JSON-structured, it with one
\* element more; if not, it with text after it.
C22_CurrentContent ==
    [][Appended =>
          IF Structured(rawText) THEN OneElementMore(rawText, rawText')
          ELSE /\ Len(rawText') > Len(rawText)
               /\ SubSeq(rawText', 1, Len(rawText)) = rawText]_vars

\* The senders of the messages displayed: those of the two selected senders.
RECURSIVE DisplayedSenders(_)
DisplayedSenders(messages) ==
    IF messages = <<>> THEN <<>>
    ELSE (IF messages[1].sender \in {leftOriginal, rightOriginal}
          THEN <<messages[1].sender>> ELSE <<>>)
         \o DisplayedSenders(Tail(messages))

\* The selected sender who did not send the last displayed message.
NextSpeakers ==
    LET shown == DisplayedSenders(Fresh(rawText).messages)
    IN  IF shown = <<>> THEN {}
        ELSE {leftOriginal, rightOriginal} \ {shown[Len(shown)]}

\* C23: after a prediction on a plain-text document, parseChat of the new
\* document gives the messages it gave before and one more, the last, sent
\* by the selected sender who did not send the last displayed message, with
\* the trimmed prediction as content.
C23_TextRoundTrip ==
    [][(Appended /\ ~Structured(rawText))
          => LET old == NoIds(Fresh(rawText).messages)
                 new == NoIds(Fresh(rawText').messages)
             IN  /\ Len(new) = Len(old) + 1
                 /\ SubSeq(new, 1, Len(old)) = old
                 /\ new[Len(new)].sender \in NextSpeakers
                 /\ new[Len(new)].content = trim(input'.prediction)]_vars

\* C24: after a prediction on a JSON document, parseChat of the new document
\* gives its last message the name of the selected sender who did not send
\* the last displayed message, and the participants it gave before.
C24_JsonRoundTrip ==
    [][(Appended /\ Structured(rawText))
          => LET new == Fresh(rawText')
             IN  /\ new.messages # <<>>
                 /\ new.messages[Len(new.messages)].sender \in NextSpeakers
                 /\ new.participants = Fresh(rawText).participants]_vars

---------------------------------------------------------------------------
(* Insights and the state of the buttons.                                  *)

\* C25: a cached analysis was asked about the current text.
C25_AnalysisCurrent ==
    (pc = "idle" /\ analysisData # null) => analysisOf = rawText

\* C26: whenever isPredicting is true, it is false again later, when the
\* effect runs after every change and every awaited call returns.
C26_PredictEnds == isPredicting ~> ~isPredicting

\* C27: whenever the analysis panel is open, analysisData is an object.
C27_PanelHasData ==
    isAnalysisOpen => (analysisData # null /\ analysisData.t = "obj")

---------------------------------------------------------------------------
(* The selection of the two senders.                                       *)

Among(participants, name) ==
    \E i \in 1..Len(participants) : participants[i] = name

\* C28: when the effect runs on a non-empty text, a selection whose two
\* senders are both among the participants of that text is kept, aliases
\* included; otherwise, with a participant, right becomes the first
\* participant and left the second, or '' when there is one only, and the
\* aliases the same names; with no participant nothing is reassigned.
C28_ValidSelectionKept ==
    [][(pc = "effect" /\ pc' = "idle" /\ rawText # <<>>)
          => LET participants == Fresh(rawText).participants
                 second == IF Len(participants) >= 2 THEN participants[2]
                           ELSE <<>>
             IN  IF \/ participants = <<>>
                    \/ /\ Among(participants, leftOriginal)
                       /\ Among(participants, rightOriginal)
                 THEN UNCHANGED <<leftOriginal, rightOriginal, leftAlias,
                                  rightAlias>>
                 ELSE /\ rightOriginal' = participants[1]
                      /\ rightAlias' = participants[1]
                      /\ leftOriginal' = second
                      /\ leftAlias' = second]_vars

\* The text was changed to one with other participants, the effect has run,
\* and the selection is not the one auto-assign would make: the senders are
\* those chosen for the text before, and the left alias is a typed one.
C28_Witness ==
    /\ pc = "idle"
    /\ rawText # <<>>
    /\ input.before # <<>>
    /\ Fresh(rawText).participants # Fresh(input.before).participants
    /\ Among(Fresh(rawText).participants, leftOriginal)
    /\ Among(Fresh(rawText).participants, rightOriginal)
    /\ Among(Fresh(input.before).participants, leftOriginal)
    /\ Among(Fresh(input.before).participants, rightOriginal)
    /\ rightOriginal # Fresh(rawText).participants[1]
    /\ leftAlias = Chars("Me")

---------------------------------------------------------------------------
(* Requests for an analysis.                                               *)

NonForced(request) == request.kind = "analyze" /\ ~request.forceRefresh

\* C29: a request for an analysis without forceRefresh is issued only when
\* no analysis is in progress and none is cached, so no other such request
\* is in flight then; a step that opens the panel without a response having
\* arrived does nothing else.
C29_NoDuplicate ==
    [][/\ (/\ Len(requests') > Len(requests)
           /\ NonForced(requests'[Len(requests')]))
          => /\ ~isAnalyzing
             /\ ~Truthy(analysisData)
             /\ \A i \in 1..Len(requests) : ~NonForced(requests[i])
       /\ (~isAnalysisOpen /\ isAnalysisOpen' /\ requests' = requests)
          => UNCHANGED <<input, rawText, pc, result, detectedParticipants,
                         leftOriginal, leftAlias, rightOriginal, rightAlias,
                         analysisData, aiVars>>]_vars

\* A request issued without forceRefresh is in flight.
C29_Witness ==
    /\ isAnalyzing
    /\ \E i \in 1..Len(requests) : NonForced(requests[i])

---------------------------------------------------------------------------
(* The translator's requests.                                              *)

\* C30: once no request is in flight, what is displayed is the answer to the
\* latest prompt, or nothing when the latest debounced text is blank.
C30_LatestResult ==
    (translator.pc = "idle" /\ translator.fetches = <<>>)
        => IF trim(translator.debouncedText) = <<>>
           THEN translator.result = null /\ translator.detectedSource = null
           ELSE translator.result # null
                   => /\ translator.result = jsonResult(Prompt)
                      /\ translator.detectedSource
                            = jsonResult(Prompt).detectedSource

===========================================================================
